---------------------------- MODULE Spec2Model ----------------------------
(***************************************************************************)
(* Lexica backend: the BM25 index (index_bm25.py), the snippet search      *)
(* (search.py), the embedding store (semantic.py), the hybrid reranker     *)
(* (rerank.py), the export parser (parse.py) and the HTTP handlers that    *)
(* drive them over one dataset directory (main.py).                        *)
(*                                                                         *)
(* A text is a sequence of one-character strings.  A term is a sequence of *)
(* characters too.  Scores are fixed-point numbers, Scale units to 1.0.    *)
(***************************************************************************)
EXTENDS Integers, Sequences, FiniteSets, TLC

\* ------------------------------------------------------------------ bounds
\* longest text of a corpus row or of a query, in characters
MaxTextLen == 3
\* most rows of rows.jsonl in the lexical specification
MaxRows == 2

\* ---------------------------------------------------------------- characters
\* The characters texts are drawn from: a lower and an upper case letter, the
\* one-letter stopword, the underscore and a blank.
Alphabet == {"x", "X", "a", "_", " "}

UpperChars == {"X"}

\* _WORDS = [a-zA-Z0-9_]+ : the characters of the class that are in Alphabet
WordChars == {"x", "X", "a", "_"}

Whitespace == {" "}

\* str.lower(), one character
LowerChar(c) == IF c = "X" THEN "x" ELSE c

\* str.lower()
Lower(s) == [i \in 1..Len(s) |-> LowerChar(s[i])]

\* all texts of at most n characters
TextsUpTo(n) == UNION {[1..k -> Alphabet] : k \in 0..n}

Texts == TextsUpTo(MaxTextLen)

\* str.strip(): leading and trailing whitespace removed
RECURSIVE LStrip(_)
LStrip(s) == IF s # <<>> /\ Head(s) \in Whitespace THEN LStrip(Tail(s)) ELSE s

RECURSIVE RStrip(_)
RStrip(s) ==
    IF s # <<>> /\ s[Len(s)] \in Whitespace
    THEN RStrip(SubSeq(s, 1, Len(s) - 1)) ELSE s

Strip(s) == RStrip(LStrip(s))

\* re.findall of a character class repeated (+): the maximal runs of
\* characters of cls, left to right.  cur is the run being read.
RECURSIVE FindRuns(_, _, _)
FindRuns(s, cls, cur) ==
    IF s = <<>> THEN (IF cur = <<>> THEN <<>> ELSE <<cur>>)
    ELSE IF Head(s) \in cls THEN FindRuns(Tail(s), cls, Append(cur, Head(s)))
    ELSE (IF cur = <<>> THEN <<>> ELSE <<cur>>) \o FindRuns(Tail(s), cls, <<>>)

\* str.split(sep) for a one-character separator: empty pieces are kept
RECURSIVE SplitOn(_, _, _)
SplitOn(s, sep, cur) ==
    IF s = <<>> THEN <<cur>>
    ELSE IF Head(s) = sep THEN <<cur>> \o SplitOn(Tail(s), sep, <<>>)
    ELSE SplitOn(Tail(s), sep, Append(cur, Head(s)))

\* _CAMEL.sub(' ', p).split(): p cut before every upper case letter that is not
\* its first character; no empty piece
RECURSIVE CamelSplit(_, _, _)
CamelSplit(p, i, cur) ==
    IF i > Len(p) THEN (IF cur = <<>> THEN <<>> ELSE <<cur>>)
    ELSE IF i > 1 /\ p[i] \in UpperChars
         THEN (IF cur = <<>> THEN <<>> ELSE <<cur>>) \o CamelSplit(p, i + 1, <<p[i]>>)
         ELSE CamelSplit(p, i + 1, Append(cur, p[i]))

\* the stopword list of index_bm25.py, each word as its characters
STOP ==
    { <<"a">>, <<"a","n">>, <<"a","n","d">>, <<"a","r","e">>, <<"a","s">>,
      <<"a","t">>, <<"b","e">>, <<"b","y">>, <<"f","o","r">>,
      <<"f","r","o","m">>, <<"h","a","s">>, <<"h","a","v","e">>, <<"i">>,
      <<"i","n">>, <<"i","s">>, <<"i","t">>, <<"i","t","s">>, <<"o","f">>,
      <<"o","n">>, <<"o","r">>, <<"t","h","a","t">>, <<"t","h","e">>,
      <<"t","o">>, <<"w","a","s">>, <<"w","e","r","e">>, <<"w","i","l","l">>,
      <<"w","i","t","h">>, <<"y","o","u">>, <<"y","o","u","r">> }

\* the concatenation of the sequences of a sequence
RECURSIVE Concat(_)
Concat(ss) == IF ss = <<>> THEN <<>> ELSE Head(ss) \o Concat(Tail(ss))

CamelParts(p) == CamelSplit(p, 1, <<>>)

\* split_ident: snake_case and camelCase pieces of a token
split_ident(tok) ==
    LET parts == SplitOn(tok, "_", <<>>)
    IN  SelectSeq(Concat([k \in 1..Len(parts) |-> CamelParts(parts[k])]),
                  LAMBDA r : r # <<>>)

\* what tokenize emits for one token t: t itself and its pieces that differ from
\* it and are no stopwords; nothing for a stopword
TokenOut(t) ==
    IF t \in STOP THEN <<>>
    ELSE <<t>> \o SelectSeq([k \in 1..Len(split_ident(t)) |-> Lower(split_ident(t)[k])],
                            LAMBDA p : p # t /\ p \notin STOP)

\* index_bm25.tokenize
tokenize(text) ==
    IF text = <<>> THEN <<>>
    ELSE LET toks == FindRuns(Lower(Strip(text)), WordChars, <<>>)
         IN  Concat([k \in 1..Len(toks) |-> TokenOut(toks[k])])

\* ------------------------------------------------------------ fixed point
\* Floats are fixed-point integers: Scale units make 1.0.
Scale == 10 * 1000

\* math.log(p / q) for integers p > q > 0, in Scale units, by the series
\* ln(p/q) = 2 (y + y^3/3 + y^5/5 + ...), y = (p - q)/(p + q)
RECURSIVE LnSeries(_, _, _)
LnSeries(pow, y2, k) ==
    IF pow = 0 THEN 0
    ELSE (pow \div (2 * k + 1)) + LnSeries((pow * y2) \div Scale, y2, k + 1)

LnFp(p, q) ==
    LET yf == ((p - q) * Scale) \div (p + q)
    IN  2 * LnSeries(yf, (yf * yf) \div Scale, 0)

\* the sum of f over the finite set S
RECURSIVE SumOver(_, _)
SumOver(S, f) ==
    IF S = {} THEN 0
    ELSE LET x == CHOOSE y \in S : TRUE IN f[x] + SumOver(S \ {x}, f)

Max(a, b) == IF a >= b THEN a ELSE b

Min(a, b) == IF a <= b THEN a ELSE b

\* ------------------------------------------------------------------- rows
\* One line of rows.jsonl.  valid: json.loads accepts it.  has: the keys of
\* the object.  A key that is absent has a filler value that is never read.
RowKeys == {"msg", "conv_id", "conv_title", "ts", "role", "text", "has_code"}

\* a well-formed row as parse_export writes it
Row(m, c, t, r, x) ==
    [valid |-> TRUE, has |-> RowKeys, msg |-> m, conv_id |-> c,
     conv_title |-> c, ts |-> t, role |-> r, text |-> x,
     has_code |-> FALSE]

\* a line that is not JSON
BadJsonLine == [Row(0, "c1", 1, "user", <<>>) EXCEPT !.valid = FALSE, !.has = {}]

\* row without the key k
RowWithout(row, k) == [row EXCEPT !.has = @ \ {k}]

\* row.get("text") or ""
RowText(row) == IF "text" \in row.has THEN row.text ELSE <<>>

\* ---------------------------------------------------------- build_bm25
\* BM25 parameters as fractions: k1 = 1.2 = K1Num/K1Den, b = 0.75 = BNum/BDen
K1Num == 6
K1Den == 5
BNum == 3
BDen == 4

\* Counter(toks)[t]
CountOf(toks, t) == Cardinality({i \in 1..Len(toks) : toks[i] = t})

TermsOf(toks) == {toks[i] : i \in 1..Len(toks)}

\* postings[term][doc_id] += tf for every term of cnt (defaultdict of
\* defaultdict(int))
AddPostings(postings, doc, toks) ==
    [t \in (DOMAIN postings) \cup TermsOf(toks) |->
        IF t \notin TermsOf(toks) THEN postings[t]
        ELSE LET old == IF t \in DOMAIN postings THEN postings[t] ELSE <<>>
             IN  [d \in (DOMAIN old) \cup {doc} |->
                    IF d # doc THEN old[d]
                    ELSE (IF d \in DOMAIN old THEN old[d] ELSE 0) + CountOf(toks, t)]]

\* dict[k] = v
DictSet(f, k, v) == [x \in (DOMAIN f) \cup {k} |-> IF x = k THEN v ELSE f[x]]

BuildAcc0 == [err |-> "none", postings |-> <<>>, doclen |-> <<>>, docs |-> 0]

\* the body of the loop over the lines of rows.jsonl (index_bm25.py:60-76)
BuildRow(acc, line) ==
    IF acc.err # "none" THEN acc
    ELSE IF ~line.valid THEN acc
    ELSE IF "msg" \notin line.has THEN [acc EXCEPT !.err = "KeyError"]
    ELSE LET toks == tokenize(RowText(line))
         IN  IF toks = <<>>
             THEN [acc EXCEPT !.doclen = DictSet(@, line.msg, 0), !.docs = @ + 1]
             ELSE [acc EXCEPT !.postings = AddPostings(@, line.msg, toks),
                              !.doclen = DictSet(@, line.msg, Len(toks)),
                              !.docs = @ + 1]

RECURSIVE BuildLoop(_, _)
BuildLoop(acc, lines) ==
    IF lines = <<>> THEN acc ELSE BuildLoop(BuildRow(acc, Head(lines)), Tail(lines))

\* the idf without its "+ 1.0": log((N - df + 0.5) / (df + 0.5)), negative for a
\* term of more than half of the docs
IdfOfNoPlusOne(N, df) ==
    IF 2 * N - 2 * df + 1 >= 2 * df + 1
    THEN LnFp(2 * N - 2 * df + 1, 2 * df + 1)
    ELSE 0 - LnFp(2 * df + 1, 2 * N - 2 * df + 1)

\* idf[term] = math.log((N - df + 0.5) / (df + 0.5) + 1.0)
\*           = log((2N + 2) / (2 df + 1))
IdfOf(N, df) == LnFp(2 * N + 2, 2 * df + 1)

\* build_bm25 up to its writes: what it would write, or the exception it ends in.
\* rows is the content of rows.jsonl, with rows.exists FALSE when there is none.
\* avg_len is the fraction num/den.
ComputeBm25(rows) ==
    IF ~rows.exists THEN [err |-> "FileNotFoundError"]
    ELSE LET acc == BuildLoop(BuildAcc0, rows.data)
         IN  IF acc.err # "none" THEN [err |-> acc.err]
             ELSE IF acc.docs = 0 THEN [err |-> "RuntimeError"]
             ELSE [err |-> "none",
                   index |-> acc.postings,
                   idf |-> [t \in DOMAIN acc.postings |->
                              IdfOf(acc.docs, Cardinality(DOMAIN acc.postings[t]))],
                   doclen |-> acc.doclen,
                   stats |-> [terms |-> Cardinality(DOMAIN acc.postings),
                              docs |-> acc.docs,
                              avg_len |-> [num |-> SumOver(DOMAIN acc.doclen, acc.doclen),
                                           den |-> Max(1, Cardinality(DOMAIN acc.doclen))],
                              k1 |-> [num |-> K1Num, den |-> K1Den],
                              b |-> [num |-> BNum, den |-> BDen]]]

\* ---------------------------------------------------------- bm25_search
\* the orders in which iterating the set S may yield its elements
Perms(S) ==
    {p \in [1..Cardinality(S) -> S] : \A i, j \in 1..Cardinality(S) : i # j => p[i] # p[j]}

\* max(1.0, avg_len) as a fraction
AvgFloor(avg) == IF avg.num >= avg.den THEN avg ELSE [num |-> 1, den |-> 1]

\* one posting's share of a score, in Scale units:
\*   w * (tf * (K1 + 1)) / (tf + K1 * (1 - B + B * (dl / max(1.0, avg_len))))
\* with K1 = k1.num/k1.den, B = b.num/b.den, over the common denominator.  The
\* denominator is positive whenever tf >= 1, so max(1e-9, denom) is denom.
TermScore(w, tf, dl, avg, k1, b) ==
    LET a == AvgFloor(avg)
        numer == w * tf * (k1.num + k1.den) * b.den * a.num
        denom == tf * k1.den * b.den * a.num
                 + k1.num * ((b.den - b.num) * a.num + b.num * dl * a.den)
    IN  numer \div denom

\* what the i-th query term adds to doc d (index_bm25.py:145-157)
QueryTermScore(index, idf, doclen, stats, t, d) ==
    IF t \notin DOMAIN index THEN 0
    ELSE IF DOMAIN index[t] = {} THEN 0
    ELSE IF t \notin DOMAIN idf THEN 0
    ELSE IF idf[t] <= 0 THEN 0
    ELSE IF d \notin DOMAIN index[t] THEN 0
    ELSE TermScore(idf[t], index[t][d],
                   IF d \in DOMAIN doclen THEN doclen[d] ELSE 0,
                   stats.avg_len, stats.k1, stats.b)

\* seen_docs: the docs of the postings of the query terms that carry weight
SeenDocs(index, idf, q_terms) ==
    UNION {DOMAIN index[q_terms[i]] :
             i \in {j \in 1..Len(q_terms) :
                      /\ q_terms[j] \in DOMAIN index
                      /\ q_terms[j] \in DOMAIN idf
                      /\ idf[q_terms[j]] > 0}}

RECURSIVE ScoreSum(_, _, _, _, _, _)
ScoreSum(index, idf, doclen, stats, q_terms, d) ==
    IF q_terms = <<>> THEN 0
    ELSE QueryTermScore(index, idf, doclen, stats, Head(q_terms), d)
         + ScoreSum(index, idf, doclen, stats, Tail(q_terms), d)

\* scores[d] for the docs seen
Bm25Scores(index, idf, doclen, stats, q_terms) ==
    [d \in SeenDocs(index, idf, q_terms) |->
        ScoreSum(index, idf, doclen, stats, q_terms, d)]

\* The orders in which iterating a set of ints yields its elements.  The
\* language leaves the order open.  CPython keeps a set of at most
\* SmallSetMax ints in a table of SetTableSize slots, the int i in slot
\* i mod SetTableSize when that slot is free, and iterates by slot: when no
\* two elements share a slot that is the one order; otherwise the order depends
\* on the insertions and every order is allowed here.
SetTableSize == 8
SmallSetMax == 4

SetIterOrders(S) ==
    IF /\ Cardinality(S) <= SmallSetMax
       /\ \A x, y \in S : x # y => (x % SetTableSize) # (y % SetTableSize)
    THEN {p \in Perms(S) :
            \A i \in 1..(Len(p) - 1) : (p[i] % SetTableSize) < (p[i + 1] % SetTableSize)}
    ELSE Perms(S)

\* sorted(it, key=lambda d: scores[d], reverse=True) of the sequence `it`: the
\* sort is stable, and with reverse=True elements of equal key keep their order
StableSortDesc(it, scores) ==
    CHOOSE p \in Perms({it[i] : i \in 1..Len(it)}) :
        \A i, j \in 1..Len(p) :
            i < j =>
              \/ scores[p[i]] > scores[p[j]]
              \/ /\ scores[p[i]] = scores[p[j]]
                 /\ (CHOOSE a \in 1..Len(it) : it[a] = p[i])
                      < (CHOOSE b \in 1..Len(it) : it[b] = p[j])

\* sorted(seen_docs, key=lambda d: scores[d], reverse=True), seen_docs a set
SortedByScore(scores) ==
    {StableSortDesc(it, scores) : it \in SetIterOrders(DOMAIN scores)}

\* meta.get(str(doc_id), {}) and the .get of its fields: None when absent
NoMeta ==
    [conv_id |-> "None", title |-> "None", len |-> 0, ts |-> 0,
     has_code |-> FALSE, role |-> "None"]

MetaOf(meta, d) == IF d \in DOMAIN meta THEN meta[d] ELSE NoMeta

\* ranked[:topk]
Take(seq, k) == SubSeq(seq, 1, Min(Len(seq), k))

\* the list bm25_search returns for one arrangement `ranked` of the docs seen
Bm25Hits(ranked, scores, meta, topk) ==
    [k \in 1..Min(Len(ranked), topk) |->
        [msg |-> ranked[k], score |-> scores[ranked[k]],
         conv_id |-> MetaOf(meta, ranked[k]).conv_id,
         title |-> MetaOf(meta, ranked[k]).title,
         role |-> MetaOf(meta, ranked[k]).role,
         ts |-> MetaOf(meta, ranked[k]).ts]]

\* the lists bm25_search may return once the five artifacts are loaded
Bm25Results(index, idf, doclen, stats, meta, query, topk) ==
    LET q_terms == tokenize(query)
        scores == Bm25Scores(index, idf, doclen, stats, q_terms)
    IN  IF q_terms = <<>> THEN {<<>>}
        ELSE IF DOMAIN scores = {} THEN {<<>>}
        ELSE {Bm25Hits(r, scores, meta, topk) : r \in SortedByScore(scores)}

\* the files bm25_search requires
Bm25Files == {"index", "idf", "doclen", "stats", "meta"}

\* bm25_search on the directory dir, every file read at once
bm25_search(dir, query, topk) ==
    IF \E f \in Bm25Files : ~dir[f].exists
    THEN {[err |-> "FileNotFoundError", hits |-> <<>>]}
    ELSE {[err |-> "none", hits |-> h] :
            h \in Bm25Results(dir.index.data, dir.idf.data, dir.doclen.data,
                              dir.stats.data, dir.meta.data, query, topk)}

\* -------------------------------------------------------- embedding store
\* DIMS of semantic.py
DIMS == 1024

\* _char_trigrams: the substrings of three characters of " " + s.lower() + " "
char_trigrams(s) ==
    LET p == <<" ">> \o Lower(s) \o <<" ">>
    IN  [i \in 1..(Len(p) - 2) |-> SubSeq(p, i, i + 2)]

\* A character's code point, as far as texts go here
CharCode(c) ==
    CASE c = " " -> 32 [] c = "X" -> 88 [] c = "_" -> 95 [] c = "a" -> 97 [] OTHER -> 120

\* hash(tri): the hash of a str is salted per interpreter run (PYTHONHASHSEED is
\* random unless set), so it is a function of the string and of the run's seed.
\* Any such function stands for it; this one mixes the code points with the seed.
StrHash(tri, seed) ==
    (CharCode(tri[1]) * 961 + CharCode(tri[2]) * 31 + CharCode(tri[3])) * (2 * seed + 1)
    + 7919 * seed

\* (hash(tri) % dims + dims) % dims
Bucket(tri, dims, seed) == ((StrHash(tri, seed) % dims) + dims) % dims

\* _embed before v /= n: bucket -> count, over the buckets that are hit.  The
\* stored vector is this one divided by its norm (the zero vector stays zero);
\* Dot and Norm2 below are taken on the counts and the norm divided out where a
\* cosine is needed.
embed(text, dims, seed) ==
    LET tris == char_trigrams(text)
        hit == {Bucket(tris[i], dims, seed) : i \in 1..Len(tris)}
    IN  [h \in hit |-> Cardinality({i \in 1..Len(tris) : Bucket(tris[i], dims, seed) = h})]

Dot(u, v) ==
    SumOver((DOMAIN u) \cap (DOMAIN v),
            [h \in (DOMAIN u) \cap (DOMAIN v) |-> u[h] * v[h]])

Norm2(v) == Dot(v, v)

\* integer square root
RECURSIVE IsqrtIter(_, _)
IsqrtIter(n, x) ==
    LET y == (x + (n \div x)) \div 2 IN IF y >= x THEN x ELSE IsqrtIter(n, y)

Isqrt(n) == IF n = 0 THEN 0 ELSE IsqrtIter(n, n)

\* the dot product of the two normalized vectors, in Scale units
CosFp(u, v) ==
    IF Norm2(u) = 0 \/ Norm2(v) = 0 THEN 0
    ELSE (Dot(u, v) * Scale * 1000) \div Isqrt(Norm2(u) * Norm2(v) * 1000 * 1000)

\* sims[j] > sims[k], exactly: dot_j / |v_j| against dot_k / |v_k|
SimGreater(vj, vk, qv) ==
    LET dj == IF Norm2(vj) = 0 THEN 0 ELSE Dot(vj, qv)
        dk == IF Norm2(vk) = 0 THEN 0 ELSE Dot(vk, qv)
    IN  IF dk = 0 THEN dj > 0
        ELSE IF dj = 0 THEN FALSE
        ELSE dj * dj * Norm2(vk) > dk * dk * Norm2(vj)

\* build_vecs up to its writes (semantic.py:25-40): the arrays it would save or
\* the exception it ends in.  seed is the hash seed of the run.
RECURSIVE VecLoop(_, _, _, _)
VecLoop(acc, lines, dims, seed) ==
    IF lines = <<>> \/ acc.err # "none" THEN acc
    ELSE LET l == Head(lines)
         IN  IF ~l.valid THEN [acc EXCEPT !.err = "JSONDecodeError"]
             ELSE IF "msg" \notin l.has THEN [acc EXCEPT !.err = "KeyError"]
             ELSE VecLoop([acc EXCEPT !.ids = Append(@, l.msg),
                                      !.vecs = Append(@, embed(RowText(l), dims, seed))],
                          Tail(lines), dims, seed)

ComputeVecs(rows, dims, seed) ==
    IF ~rows.exists THEN [err |-> "AssertionError"]
    ELSE LET acc == VecLoop([err |-> "none", ids |-> <<>>, vecs |-> <<>>],
                            rows.data, dims, seed)
         IN  IF acc.err # "none" THEN [err |-> acc.err]
             ELSE IF acc.ids = <<>> THEN [err |-> "ValueError"]   \* np.stack([])
             ELSE [err |-> "none", ids |-> acc.ids, vecs |-> acc.vecs, dims |-> dims]

\* np.argsort(-sims): the row numbers by descending similarity; rows of equal
\* similarity keep their order (numpy sorts short arrays by insertion)
ArgsortDesc(vecs, qv) ==
    CHOOSE p \in Perms(1..Len(vecs)) :
        \A i, j \in 1..Len(p) :
            i < j => \/ SimGreater(vecs[p[i]], vecs[p[j]], qv)
                     \/ /\ ~SimGreater(vecs[p[j]], vecs[p[i]], qv)
                        /\ p[i] < p[j]

\* dense_search (semantic.py:46-71); seed is the hash seed of the querying run
dense_search(dir, query, topk, seed) ==
    IF ~dir.vecs.exists THEN [err |-> "AssertionError", hits |-> <<>>]
    ELSE IF ~dir.meta.exists THEN [err |-> "FileNotFoundError", hits |-> <<>>]
    ELSE LET ids == dir.vecs.data.ids
             mat == dir.vecs.data.vecs
             qv == embed(query, dir.vecs.data.dims, seed)
             top == Take(ArgsortDesc(mat, qv), topk)
         IN  [err |-> "none",
              hits |-> [k \in 1..Len(top) |->
                          [msg |-> ids[top[k]], score |-> CosFp(mat[top[k]], qv),
                           conv_id |-> MetaOf(dir.meta.data, ids[top[k]]).conv_id,
                           title |-> MetaOf(dir.meta.data, ids[top[k]]).title,
                           role |-> MetaOf(dir.meta.data, ids[top[k]]).role,
                           ts |-> MetaOf(dir.meta.data, ids[top[k]]).ts,
                           snippet |-> "None"]]]

\* ----------------------------------------------------------- hybrid_search
\* topk of the two first-stage searches
RecallDepth == 400

\* _load_pr_global: {} when pr_global.json is missing
load_pr_global(dir) == IF dir.pr_global.exists THEN dir.pr_global.data ELSE <<>>

\* _load_edges: [] when edges.jsonl is missing
load_edges(dir) == IF dir.edges.exists THEN dir.edges.data ELSE <<>>

\* the keys of {msg: score} made from a list of hits
HitIds(hits) == {hits[i].msg : i \in 1..Len(hits)}

\* hybrid_search through its first-stage recall and the loading of its signals
\* (rerank.py:98-123).  bm is what bm25_search returned.  The result names the
\* candidates and how many of them are returned, sorted(...)[:topk]; the fused
\* order among them is not part of this record.
HybridFrom(dir, bm, query, topk, seed) ==
    IF bm.err # "none" THEN [err |-> bm.err, cands |-> {}, n |-> 0]
    ELSE LET d == dense_search(dir, query, RecallDepth, seed)
             dense == IF d.err = "none" THEN d.hits ELSE <<>>   \* except Exception
             cand_ids == HitIds(bm.hits) \cup HitIds(dense)
         IN  [err |-> "none", cands |-> cand_ids,
              n |-> Min(topk, Cardinality(cand_ids))]

hybrid_search(dir, query, topk, seed) ==
    {HybridFrom(dir, bm, query, topk, seed) : bm \in bm25_search(dir, query, RecallDepth)}

\* ---------------------------------------------------- the dataset directory
\* A file of the dataset directory: whether it exists, its content, and (history)
\* the number of the build or parse run that wrote it.
Absent == [exists |-> FALSE, data |-> <<>>, by |-> 0]

FileOf(d, n) == [exists |-> TRUE, data |-> d, by |-> n]

FileNames ==
    {"raw", "rows", "threads", "meta", "index", "idf", "doclen", "stats",
     "vecs", "vec_meta", "edges", "pr_global"}

EmptyDir == [f \in FileNames |-> Absent]

\* the four files build_bm25 writes, in the order it writes them
Bm25Outputs == <<"index", "idf", "doclen", "stats">>

\* the directory after build_bm25 run n has written all of res
WriteBm25(dir, res, n) ==
    [dir EXCEPT !.index = FileOf(res.index, n), !.idf = FileOf(res.idf, n),
                !.doclen = FileOf(res.doclen, n), !.stats = FileOf(res.stats, n)]

\* parse.py counts the runs of [a-z0-9]+ of the lowercased text
ParseWordChars == {"x", "a"}

WordCount(text) == Len(FindRuns(Lower(text), ParseWordChars, <<>>))

\* meta.json as parse_export writes it for well-formed rows: one entry per msg id
\* (a later row of the same id replaces the earlier entry)
MetaEntry(row) ==
    [conv_id |-> row.conv_id, title |-> row.conv_title, len |-> WordCount(row.text),
     ts |-> row.ts, has_code |-> row.has_code, role |-> row.role]

RECURSIVE MetaFromRows(_)
MetaFromRows(rows) ==
    IF rows = <<>> THEN <<>>
    ELSE LET r == rows[Len(rows)]
             rest == MetaFromRows(SubSeq(rows, 1, Len(rows) - 1))
         IN  IF r.valid /\ "msg" \in r.has THEN DictSet(rest, r.msg, MetaEntry(r))
             ELSE rest

VARIABLES
    fs,     \* the dataset directory: file name -> file
    arg,    \* the arguments of the calls of this run (query, topk, filters)
    out,    \* the last call that returned: its name and result
    procs   \* the requests in flight (concurrent specification only)

vars == <<fs, arg, out, procs>>

NoCall == [op |-> "none"]

NoArg == [query |-> <<>>, topk |-> 0]

\* --------------------------------------------- lexical specification: SpecLex
\* rows.jsonl is any file of at most MaxRows lines over LexTexts; build_bm25 and
\* bm25_search run one after the other, each as a whole.
\* Ids 1 and 8 fall into slots 1 and 0 of a set's table (see SetIterOrders).
LexMsgIds == {1, 8}

\* "", "x", "a", "xx", "_", "x x", "x_x", "x a", "X_a"
LexTexts ==
    { <<>>, <<"x">>, <<"a">>, <<"x", "x">>, <<"_">>, <<"x", " ", "x">>,
      <<"x", "_", "x">>, <<"x", " ", "a">>, <<"X", "_", "a">> }

LexLines ==
    {Row(m, "c1", 1, "user", x) : m \in LexMsgIds, x \in LexTexts}
    \cup {BadJsonLine,
          RowWithout(Row(1, "c1", 1, "user", <<"x">>), "msg"),
          RowWithout(Row(1, "c1", 1, "user", <<"x">>), "text")}

LexCorpora == UNION {[1..n -> LexLines] : n \in 0..MaxRows}

LexTopks == {1, 2}

InitLex ==
    /\ \E rows \in LexCorpora :
          fs = [EmptyDir EXCEPT !.rows = FileOf(rows, 0),
                                !.meta = FileOf(MetaFromRows(rows), 0)]
    /\ arg \in [query : LexTexts, topk : LexTopks]
    /\ out = NoCall
    /\ procs = <<>>

\* build_bm25(ddir), the whole call
DoBuildBm25 ==
    LET res == ComputeBm25(fs.rows)
    IN  /\ fs' = IF res.err = "none" THEN WriteBm25(fs, res, 0) ELSE fs
        /\ out' = [op |-> "build_bm25", err |-> res.err]
        /\ UNCHANGED <<arg, procs>>

\* bm25_search(ddir, query, topk), the whole call
DoBm25Search ==
    \E r \in bm25_search(fs, arg.query, arg.topk) :
       /\ out' = [op |-> "bm25_search", err |-> r.err, hits |-> r.hits]
       /\ UNCHANGED <<fs, arg, procs>>

NextLex ==
    \/ DoBuildBm25
    \/ DoBm25Search

SpecLex == InitLex /\ [][NextLex]_vars

\* ------------------------------------------------------- claims on SpecLex
\* the lines of rows.jsonl that are well-formed for build_bm25: JSON with an id
WellFormed(lines) == SelectSeq(lines, LAMBDA l : l.valid /\ "msg" \in l.has)

\* C5: a malformed row (a line that is not JSON, a row without its id) is skipped
\* and the build goes on: build_bm25 ends as it would on the other rows alone,
\* with the artifacts of those rows.
C5_MalformedRowSkipped ==
    (out.op = "build_bm25" /\ fs.rows.exists) =>
        LET good == ComputeBm25([fs.rows EXCEPT !.data = WellFormed(@)])
        IN  /\ out.err = good.err
            /\ good.err = "none" =>
                  /\ fs.index.exists /\ fs.index.data = good.index
                  /\ fs.doclen.exists /\ fs.doclen.data = good.doclen

\* the scores of all docs the last search saw (fs is what the search read)
LastScores ==
    Bm25Scores(fs.index.data, fs.idf.data, fs.doclen.data, fs.stats.data,
               tokenize(arg.query))

\* C8: bm25_search returns at most topk docs by descending score, docs of equal
\* score by ascending doc id, and no doc cut off scores higher than a returned one.
C8_SortedTiesByDocId ==
    (out.op = "bm25_search" /\ out.err = "none") =>
        /\ Len(out.hits) <= arg.topk
        /\ \A i, j \in 1..Len(out.hits) :
              i < j =>
                \/ out.hits[i].score > out.hits[j].score
                \/ /\ out.hits[i].score = out.hits[j].score
                   /\ out.hits[i].msg < out.hits[j].msg
        /\ \A d \in DOMAIN LastScores, k \in 1..Len(out.hits) :
              d \notin {out.hits[i].msg : i \in 1..Len(out.hits)}
                 => LastScores[d] <= out.hits[k].score

\* the rows of doc d, and the occurrences of term t in them
RowsOfDoc(lines, d) == SelectSeq(WellFormed(lines), LAMBDA l : l.msg = d)

RECURSIVE Occurrences(_, _)
Occurrences(lines, t) ==
    IF lines = <<>> THEN 0
    ELSE CountOf(tokenize(RowText(Head(lines))), t) + Occurrences(Tail(lines), t)

DocIdsOf(lines) == {WellFormed(lines)[i].msg : i \in 1..Len(WellFormed(lines))}

\* C9: after build_bm25 the postings of a term are exactly the docs whose text
\* holds the term, each with tf >= 1 the number of its occurrences in the doc, and
\* the tf of a doc over all terms sum to at most doclen[doc].
C9_PostingsExact ==
    (out.op = "build_bm25" /\ out.err = "none") =>
        LET index == fs.index.data
            lines == fs.rows.data
        IN  /\ \A t \in DOMAIN index :
                  /\ DOMAIN index[t] =
                        {d \in DocIdsOf(lines) : Occurrences(RowsOfDoc(lines, d), t) > 0}
                  /\ \A d \in DOMAIN index[t] :
                        /\ index[t][d] >= 1
                        /\ index[t][d] = Occurrences(RowsOfDoc(lines, d), t)
            /\ \A d \in DocIdsOf(lines) :
                  /\ d \in DOMAIN fs.doclen.data
                  /\ SumOver({t \in DOMAIN index : d \in DOMAIN index[t]},
                             [t \in DOMAIN index |->
                                IF d \in DOMAIN index[t] THEN index[t][d] ELSE 0])
                       <= fs.doclen.data[d]

\* C18: build_bm25 on rows.jsonl without an ingestible document fails with the
\* empty-corpus error (RuntimeError "No documents found to index.") and none of its
\* four artifacts is written; with at least one ingestible row, of empty text or not,
\* it does not fail.
C18_EmptyCorpusFailsElseBuilds ==
    (out.op = "build_bm25" /\ fs.rows.exists) =>
        IF WellFormed(fs.rows.data) = <<>>
        THEN /\ out.err = "RuntimeError"
             /\ \A i \in 1..Len(Bm25Outputs) : ~fs[Bm25Outputs[i]].exists
        ELSE out.err = "none"

\* the same for the files in which every JSON row has its id
EmptyCorpusFailsWhenRowsHaveIds ==
    (\A i \in 1..Len(fs.rows.data) :
        fs.rows.data[i].valid => "msg" \in fs.rows.data[i].has)
      => C18_EmptyCorpusFailsElseBuilds

\* --------------------------------------- hybrid specification: SpecHyb
\* rows.jsonl as parse_export numbers it (ids 0, 1, ... in file order), possibly
\* with lines that are not JSON; the two lexical calls, build_vecs and
\* hybrid_search run one after the other in any order, each as a whole.
HashSeeds == {0, 1}

\* the kinds of line: three texts ("", "x", "a") and a line that is not JSON
HybLineKinds == 0..3

HybLine(i, kind) ==
    CASE kind = 0 -> Row(i - 1, "c1", i, "user", <<>>)
      [] kind = 1 -> Row(i - 1, "c1", i, "assistant", <<"x">>)
      [] kind = 2 -> Row(i - 1, "c1", i, "user", <<"a">>)
      [] OTHER -> BadJsonLine

HybCorpora ==
    UNION {{[i \in 1..n |-> HybLine(i, ks[i])] : ks \in [1..n -> HybLineKinds]} :
             n \in 0..MaxRows}

HybQueries == { <<>>, <<"a">>, <<"x">> }

InitHyb ==
    /\ \E rows \in HybCorpora :
          fs = [EmptyDir EXCEPT !.rows = FileOf(rows, 0),
                                !.meta = FileOf(MetaFromRows(rows), 0)]
    /\ arg \in [query : HybQueries, topk : {1, 10}, bseed : HashSeeds, qseed : HashSeeds]
    /\ out = NoCall
    /\ procs = <<>>

\* build_vecs(ddir), the whole call: vecs.npz, then vec_meta.json
DoBuildVecs ==
    LET res == ComputeVecs(fs.rows, DIMS, arg.bseed)
    IN  /\ fs' = IF res.err = "none"
                 THEN [fs EXCEPT !.vecs = FileOf([ids |-> res.ids, vecs |-> res.vecs,
                                                  dims |-> res.dims], 0),
                                 !.vec_meta = FileOf([dims |-> res.dims,
                                                      count |-> Len(res.ids)], 0)]
                 ELSE fs
        /\ out' = [op |-> "build_vecs", err |-> res.err]
        /\ UNCHANGED <<arg, procs>>

\* hybrid_search(ddir, q, topk), the whole call
DoHybridSearch ==
    \E r \in hybrid_search(fs, arg.query, arg.topk, arg.qseed) :
       /\ out' = [op |-> "hybrid_search", err |-> r.err, cands |-> r.cands, n |-> r.n]
       /\ UNCHANGED <<fs, arg, procs>>

NextHyb ==
    \/ DoBuildBm25
    \/ DoBuildVecs
    \/ DoBm25Search
    \/ DoHybridSearch

SpecHyb == InitHyb /\ [][NextHyb]_vars

\* ------------------------------------------------------- claims on SpecHyb
\* the files hybrid_search reads besides those of bm25_search; vecs.npz is left
\* out, the semantic signal being optional
HybridFiles == Bm25Files \cup {"edges", "pr_global"}

\* C4: a query with a required artifact missing ends in a precondition failure,
\* never in a result: bm25_search fails when one of its five files is missing,
\* and hybrid_search returns no ranked message when one of those or the graph or
\* the global scores is missing.
C4_MissingArtifactFails ==
    /\ (out.op = "bm25_search" /\ \E f \in Bm25Files : ~fs[f].exists)
          => out.err = "FileNotFoundError"
    /\ (out.op = "hybrid_search" /\ \E f \in HybridFiles : ~fs[f].exists)
          => ~(out.err = "none" /\ out.n > 0)

\* C6: a query without terms returns the empty list and no error, from
\* bm25_search and from hybrid_search, whatever else is in the directory (the
\* five files of bm25_search being there).
C6_EmptyQueryEmptyResult ==
    (/\ tokenize(arg.query) = <<>>
     /\ \A f \in Bm25Files : fs[f].exists) =>
        /\ out.op = "bm25_search" => (out.err = "none" /\ out.hits = <<>>)
        /\ out.op = "hybrid_search" => (out.err = "none" /\ out.n = 0)

\* C11: the embedding of a text does not depend on the run that computes it: the
\* vector build_vecs stored for a row is the vector the querying run's _embed
\* gives for the same text and dims.
C11_EmbedSameAcrossRuns ==
    fs.vecs.exists =>
        \A i \in 1..Len(fs.vecs.data.ids) :
            fs.vecs.data.vecs[i]
               = embed(RowText(fs.rows.data[i]), fs.vecs.data.dims, arg.qseed)

\* ------------------------------------- one-document specification: SpecOne
\* rows.jsonl holds one well-formed row, of any text of at most MaxTextLen
\* characters; the query is that text or a part of it.
Substrings(x) ==
    {SubSeq(x, i, j) : i \in 1..(Len(x) + 1), j \in 0..Len(x)}

OneDocId == 0

InitOne ==
    /\ \E x \in Texts :
          /\ fs = [EmptyDir EXCEPT
                     !.rows = FileOf(<<Row(OneDocId, "c1", 1, "user", x)>>, 0),
                     !.meta = FileOf(MetaFromRows(<<Row(OneDocId, "c1", 1, "user", x)>>), 0)]
          /\ arg \in [query : Substrings(x), topk : {10}]
    /\ out = NoCall
    /\ procs = <<>>

SpecOne == InitOne /\ [][NextLex]_vars

OneText == fs.rows.data[1].text

SharesTerm(q, x) == TermsOf(tokenize(q)) \cap TermsOf(tokenize(x)) # {}

\* a search that ran after the build
SearchedBuilt == out.op = "bm25_search" /\ out.err = "none"

OnlyDocReturned ==
    /\ Len(out.hits) = 1
    /\ out.hits[1].msg = OneDocId
    /\ out.hits[1].score > 0

\* C10 as stated: in a corpus of one document, a query equal to or contained in
\* the document's text returns exactly that document, with score > 0, for every
\* text.  (The empty query is left out: only queries of at least one character.)
C10_SingleDocAlwaysFound ==
    (SearchedBuilt /\ arg.query # <<>>) => OnlyDocReturned

\* C10 amended: the document is returned, alone and with score > 0, exactly when
\* the query has a term that is a term of the document; otherwise (a text of
\* stopwords only or without word characters, a part of the text that holds no
\* whole term of it) the result is empty.
C10_SingleDocFoundIffSharedTerm ==
    SearchedBuilt =>
        IF SharesTerm(arg.query, OneText) THEN OnlyDocReturned ELSE out.hits = <<>>

\* the query is the whole text, of two terms with a stopword between, and the
\* document is returned
C10_Witness ==
    /\ SearchedBuilt
    /\ arg.query = OneText
    /\ OneText = <<"x", " ", "a">>
    /\ OnlyDocReturned

\* ------------------------------------------------ snippets mode: search.py
\* search.tokenize: the runs of [A-Za-z0-9_]+, lowercased, nothing dropped or added
search_tokenize(text) ==
    LET runs == FindRuns(text, WordChars, <<>>)
    IN  [k \in 1..Len(runs) |-> Lower(runs[k])]

\* bm25_score: a query term found in idf and in the index has its postings
\* walked; index.json holds each posting as the list [doc, tf]
\* (index_bm25.py), so the first hit["msg"] raises TypeError.  Without such a
\* term the loop body never runs and the scores stay empty.
bm25_score(query_terms, postings, idf) ==
    IF \E k \in 1..Len(query_terms) :
          /\ query_terms[k] \in DOMAIN idf
          /\ query_terms[k] \in DOMAIN postings
          /\ DOMAIN postings[query_terms[k]] # {}
    THEN [err |-> "TypeError", scores |-> <<>>]
    ELSE [err |-> "none", scores |-> <<>>]

\* _load_rows_list: every line goes through json.loads, unguarded
load_rows_list(rows) ==
    IF ~rows.exists THEN [err |-> "FileNotFoundError", rows |-> <<>>]
    ELSE IF \E i \in 1..Len(rows.data) : ~rows.data[i].valid
         THEN [err |-> "JSONDecodeError", rows |-> <<>>]
         ELSE [err |-> "none", rows |-> rows.data]

\* the filters of the candidate loop; "" and 0 stand for a filter not given,
\* has_code is "None", "True" or "False"
PassesFilters(row, f) ==
    /\ f.role = "" \/ row.role = f.role
    /\ f.has_code = "None" \/ row.has_code = (f.has_code = "True")
    /\ f.conv_id = "" \/ row.conv_id = f.conv_id
    /\ f.after = 0 \/ ~(row.ts < f.after)
    /\ f.before = 0 \/ ~(row.ts > f.before)

\* _code_boost in Scale units; _freshness_boost is 0.25 * exp(-age_days / 14),
\* below one Scale unit for the timestamps used here (years before the call)
code_boost(row) == IF row.has_code THEN Scale \div 5 ELSE 0

\* the candidate loop, the sort and the cut: rows are looked up by position
SnippetHits(scores, rows, f, k) ==
    LET kept == {d \in DOMAIN scores :
                    /\ d < Len(rows)
                    /\ PassesFilters(rows[d + 1], f)}
        boosted == [d \in kept |-> scores[d] + code_boost(rows[d + 1])]
    IN  {Take([i \in 1..Len(p) |->
                  [msg |-> p[i], role |-> rows[p[i] + 1].role,
                   conv_id |-> rows[p[i] + 1].conv_id, ts |-> rows[p[i] + 1].ts,
                   has_code |-> rows[p[i] + 1].has_code]], k) :
            p \in {q \in Perms(kept) :
                     \A i, j \in 1..Len(q) : i < j => boosted[q[i]] >= boosted[q[j]]}}

\* search_bm25_with_snippets(ddir, q, k, role, has_code, after_iso, before_iso,
\* conv_id): index, idf, meta and doclen are loaded first, stats.json only if it
\* is there
search_bm25_with_snippets(dir, q, k, f) ==
    IF \E n \in {"index", "idf", "meta", "doclen"} : ~dir[n].exists
    THEN {[err |-> "FileNotFoundError", hits |-> <<>>]}
    ELSE LET rl == load_rows_list(dir.rows)
             sc == bm25_score(search_tokenize(q), dir.index.data, dir.idf.data)
         IN  IF rl.err # "none" THEN {[err |-> rl.err, hits |-> <<>>]}
             ELSE IF sc.err # "none" THEN {[err |-> sc.err, hits |-> <<>>]}
             ELSE {[err |-> "none", hits |-> h] :
                      h \in SnippetHits(sc.scores, rl.rows, f, k)}

\* ------------------------------------- snippets specification: SpecSnip
\* rows.jsonl as parse_export numbers it, the rows differing in role, code flag,
\* conversation and time; build_bm25 and a filtered snippets query run one after
\* the other, each as a whole.
SnipLineKinds == 0..3

SnipLine(i, kind) ==
    CASE kind = 0 -> Row(i - 1, "c1", 1, "user", <<"x">>)
      [] kind = 1 -> [Row(i - 1, "c2", 2, "assistant", <<"x">>) EXCEPT !.has_code = TRUE]
      [] kind = 2 -> Row(i - 1, "c2", 2, "user", <<"x", " ", "a">>)
      [] OTHER -> BadJsonLine

SnipCorpora ==
    UNION {{[i \in 1..n |-> SnipLine(i, ks[i])] : ks \in [1..n -> SnipLineKinds]} :
             n \in 0..MaxRows}

SnipFilters ==
    [role : {"", "user"}, has_code : {"None", "True", "False"},
     conv_id : {"", "c1"}, after : {0, 2}, before : {0, 1}]

InitSnip ==
    /\ \E rows \in SnipCorpora :
          fs = [EmptyDir EXCEPT !.rows = FileOf(rows, 0),
                                !.meta = FileOf(MetaFromRows(rows), 0)]
    /\ arg \in [query : { <<>>, <<"x">>, <<"_">> }, topk : {10}, filters : SnipFilters]
    /\ out = NoCall
    /\ procs = <<>>

\* search_bm25_with_snippets(ddir, q, k, ...), the whole call
DoSnippetSearch ==
    \E r \in search_bm25_with_snippets(fs, arg.query, arg.topk, arg.filters) :
       /\ out' = [op |-> "snippets", err |-> r.err, hits |-> r.hits]
       /\ UNCHANGED <<fs, arg, procs>>

NextSnip ==
    \/ DoBuildBm25
    \/ DoSnippetSearch

SpecSnip == InitSnip /\ [][NextSnip]_vars

\* ------------------------------------------------------ claims on SpecSnip
\* the query has a term that the index holds
QueryMatchesIndex ==
    /\ fs.index.exists
    /\ \E k \in 1..Len(search_tokenize(arg.query)) :
          search_tokenize(arg.query)[k] \in DOMAIN fs.index.data

\* C7: a snippets query whose terms match indexed documents, run on a directory
\* whose rows.jsonl is all JSON, returns a list and does not fail, and every
\* message of the list passes every filter of the call.
C7_SnippetsHonourFilters ==
    (/\ out.op = "snippets"
     /\ QueryMatchesIndex
     /\ load_rows_list(fs.rows).err = "none") =>
        /\ out.err = "none"
        /\ \A i \in 1..Len(out.hits) : PassesFilters(out.hits[i], arg.filters)

\* ------------------------------------ concurrent specification: Spec
\* The HTTP handlers of main.py are plain functions, which the server runs on
\* worker threads: requests for one dataset overlap, and nothing in main.py,
\* parse.py or index_bm25.py takes a lock.  Each request is a process of
\* `procs`; a step is one file operation of its code.  Files carry the number of
\* the request that wrote them (0: before the first request).  At the start the
\* directory holds an upload alone, or a parsed export, or a parsed export and
\* the index of an export parsed before it.
MaxReqs == 2

\* raw exports: the messages' texts, all of one conversation
ConcTexts == { <<"x">>, <<"x", " ", "x">> }

Exports == UNION {[1..n -> ConcTexts] : n \in 1..MaxRows}

\* the row emit() appends for the message at position id of the export
ParseRow(id, text) == Row(id, "c1", id + 1, "user", text)

\* rows.jsonl, threads.json and meta.json after a parse_export that ran alone
ParsedRows(export) == [i \in 1..Len(export) |-> ParseRow(i - 1, export[i])]

ThreadsOf(ids) == [c \in {"c1"} |-> ids]

ParsedDir(export, raw) ==
    [EmptyDir EXCEPT !.raw = FileOf(raw, 0),
                     !.rows = FileOf(ParsedRows(export), 0),
                     !.threads = FileOf(ThreadsOf([i \in 1..Len(export) |-> i - 1]), 0),
                     !.meta = FileOf(MetaFromRows(ParsedRows(export)), 0)]

Init ==
    /\ arg \in [query : { <<"x">> }, topk : {MaxRows}, raw : Exports]
    /\ \/ fs = [EmptyDir EXCEPT !.raw = FileOf(arg.raw, 0)]
       \/ \E cur \in Exports : fs = ParsedDir(cur, arg.raw)
       \/ \E old \in Exports, cur \in Exports :
             fs = WriteBm25(ParsedDir(cur, arg.raw),
                            ComputeBm25(ParsedDir(old, arg.raw).rows), 0)
    /\ out = NoCall
    /\ procs = <<>>

Running(p, op, pc) ==
    /\ p \in DOMAIN procs
    /\ procs[p].op = op
    /\ procs[p].pc = pc

\* the files bm25_search loads, in the order it loads them
Bm25Inputs == <<"index", "idf", "doclen", "stats", "meta">>

\* POST /datasets/{id}/index/bm25 arrives: build_index_bm25 looks for rows.jsonl
StartBuild ==
    /\ Len(procs) < MaxReqs
    /\ IF fs.rows.exists
       THEN /\ procs' = Append(procs, [op |-> "build", pc |-> "read",
                                       res |-> [err |-> "none"], next |-> 1])
            /\ UNCHANGED out
       ELSE /\ procs' = Append(procs, [op |-> "build", pc |-> "done",
                                       res |-> [err |-> "HTTP400"], next |-> 1])
            /\ out' = [op |-> "build_bm25", err |-> "HTTP400"]
    /\ UNCHANGED <<fs, arg>>

\* build_bm25 up to its first write: rows.jsonl read, the index computed
BuildRead ==
    \E p \in DOMAIN procs :
       /\ Running(p, "build", "read")
       /\ LET res == ComputeBm25(fs.rows)
          IN  IF res.err = "none"
              THEN /\ procs' = [procs EXCEPT ![p].pc = "write", ![p].res = res]
                   /\ UNCHANGED out
              ELSE /\ procs' = [procs EXCEPT ![p].pc = "done", ![p].res = res]
                   /\ out' = [op |-> "build_bm25", err |-> res.err]
       /\ UNCHANGED <<fs, arg>>

\* build_bm25 writes its next file in place: index.json, idf.json, doclen.json,
\* stats.json
BuildWrite ==
    \E p \in DOMAIN procs :
       /\ Running(p, "build", "write")
       /\ LET f == Bm25Outputs[procs[p].next]
          IN  fs' = [fs EXCEPT ![f] = FileOf(procs[p].res[f], p)]
       /\ IF procs[p].next = Len(Bm25Outputs)
          THEN /\ procs' = [procs EXCEPT ![p].pc = "done"]
               /\ out' = [op |-> "build_bm25", err |-> "none"]
          ELSE /\ procs' = [procs EXCEPT ![p].next = @ + 1]
               /\ UNCHANGED out
       /\ UNCHANGED arg

\* POST /datasets/{id}/parse arrives: parse_dataset finds the raw export and
\* parse_export starts with empty tables and msg_auto = 0
StartParse ==
    /\ Len(procs) < MaxReqs
    /\ fs.raw.exists
    /\ procs' = Append(procs, [op |-> "parse", pc |-> "unlink", msg_auto |-> 0,
                               meta |-> <<>>, ordered |-> <<>>])
    /\ UNCHANGED <<fs, arg, out>>

\* parse_export removes rows.jsonl if it is there
ParseUnlink ==
    \E p \in DOMAIN procs :
       /\ Running(p, "parse", "unlink")
       /\ fs' = [fs EXCEPT !.rows = Absent]
       /\ procs' = [procs EXCEPT ![p].pc = "emit"]
       /\ UNCHANGED <<arg, out>>

\* emit() takes the next message: the id from msg_auto, one line appended to
\* rows.jsonl (created when it is not there), the tables updated
ParseEmit ==
    \E p \in DOMAIN procs :
       /\ Running(p, "parse", "emit")
       /\ LET id == procs[p].msg_auto
              row == ParseRow(id, fs.raw.data[id + 1])
          IN  /\ fs' = [fs EXCEPT !.rows =
                           IF @.exists THEN [@ EXCEPT !.data = Append(@, row)]
                           ELSE FileOf(<<row>>, p)]
              /\ procs' = [procs EXCEPT
                             ![p].msg_auto = id + 1,
                             ![p].ordered = Append(@, id),
                             ![p].meta = DictSet(@, id, MetaEntry(row)),
                             ![p].pc = IF id + 1 = Len(fs.raw.data)
                                       THEN "threads" ELSE "emit"]
       /\ UNCHANGED <<arg, out>>

\* parse_export writes threads.json
ParseThreads ==
    \E p \in DOMAIN procs :
       /\ Running(p, "parse", "threads")
       /\ fs' = [fs EXCEPT !.threads = FileOf(ThreadsOf(procs[p].ordered), p)]
       /\ procs' = [procs EXCEPT ![p].pc = "meta"]
       /\ UNCHANGED <<arg, out>>

\* parse_export writes meta.json and returns
ParseMeta ==
    \E p \in DOMAIN procs :
       /\ Running(p, "parse", "meta")
       /\ fs' = [fs EXCEPT !.meta = FileOf(procs[p].meta, p)]
       /\ procs' = [procs EXCEPT ![p].pc = "done"]
       /\ out' = [op |-> "parse_export", err |-> "none"]
       /\ UNCHANGED arg

\* a build or a parse is cut short where it stands (the worker is killed, a
\* write fails): nothing is undone
Interrupt ==
    \E p \in DOMAIN procs :
       /\ procs[p].op \in {"build", "parse"}
       /\ procs[p].pc \in {"write", "emit", "threads", "meta"}
       /\ procs' = [procs EXCEPT ![p].pc = "done"]
       /\ out' = [op |-> procs[p].op, err |-> "Interrupted"]
       /\ UNCHANGED <<fs, arg>>

\* a basic-mode query arrives: bm25_search looks for its five files; `snap` keeps
\* the directory as it was then
StartSearch ==
    /\ Len(procs) < MaxReqs
    /\ IF \A f \in Bm25Files : fs[f].exists
       THEN /\ procs' = Append(procs, [op |-> "search", pc |-> "load", next |-> 1,
                                       got |-> EmptyDir, snap |-> fs,
                                       err |-> "none", hits |-> <<>>])
            /\ UNCHANGED out
       ELSE /\ procs' = Append(procs, [op |-> "search", pc |-> "done", next |-> 1,
                                       got |-> EmptyDir, snap |-> fs,
                                       err |-> "FileNotFoundError", hits |-> <<>>])
            /\ out' = [op |-> "bm25_search", err |-> "FileNotFoundError", hits |-> <<>>]
    /\ UNCHANGED <<fs, arg>>

\* bm25_search loads its next file
SearchLoad ==
    \E p \in DOMAIN procs :
       /\ Running(p, "search", "load")
       /\ LET f == Bm25Inputs[procs[p].next]
          IN  procs' = [procs EXCEPT
                          ![p].got = [@ EXCEPT ![f] = fs[f]],
                          ![p].next = @ + 1,
                          ![p].pc = IF procs[p].next = Len(Bm25Inputs)
                                    THEN "rank" ELSE "load"]
       /\ UNCHANGED <<fs, arg, out>>

\* bm25_search scores and ranks what it loaded, and returns
SearchRank ==
    \E p \in DOMAIN procs :
       /\ Running(p, "search", "rank")
       /\ \E r \in bm25_search(procs[p].got, arg.query, arg.topk) :
             /\ procs' = [procs EXCEPT ![p].pc = "done", ![p].err = r.err,
                                       ![p].hits = r.hits]
             /\ out' = [op |-> "bm25_search", err |-> r.err, hits |-> r.hits]
       /\ UNCHANGED <<fs, arg>>

Next ==
    \/ StartBuild
    \/ BuildRead
    \/ BuildWrite
    \/ StartParse
    \/ ParseUnlink
    \/ ParseEmit
    \/ ParseThreads
    \/ ParseMeta
    \/ Interrupt
    \/ StartSearch
    \/ SearchLoad
    \/ SearchRank

Spec == Init /\ [][Next]_vars

\* ---------------------------------------------------------- claims on Spec
\* C1: at every moment the four files of build_bm25 are those of one build:
\* none of them is there, or all four are and one request wrote them all.
C1_BuildAtomic ==
    \/ \A i \in 1..Len(Bm25Outputs) : ~fs[Bm25Outputs[i]].exists
    \/ \A i, j \in 1..Len(Bm25Outputs) :
          /\ fs[Bm25Outputs[i]].exists
          /\ fs[Bm25Outputs[i]].by = fs[Bm25Outputs[j]].by

\* the artifact sets of single builds: the one in the directory when the query
\* p started and the one of every build request that computed its index
ArtifactSets(p) ==
    {[f \in {Bm25Outputs[i] : i \in 1..Len(Bm25Outputs)} |-> procs[p].snap[f].data]}
    \cup {[f \in {Bm25Outputs[i] : i \in 1..Len(Bm25Outputs)} |-> procs[b].res[f]] :
             b \in {c \in DOMAIN procs : /\ procs[c].op = "build"
                                        /\ procs[c].pc \in {"write", "done"}
                                        /\ procs[c].res.err = "none"
                                        /\ "index" \in DOMAIN procs[c].res}}

\* the ids and scores of a result, in order
Ranking(hits) == [k \in 1..Len(hits) |-> <<hits[k].msg, hits[k].score>>]

\* C2: a query that returns while builds of the dataset run returns the ranking
\* it would return on the artifacts of one single build.
C2_QuerySeesOneBuild ==
    \A p \in DOMAIN procs :
       (Running(p, "search", "done") /\ procs[p].err = "none") =>
          \E a \in ArtifactSets(p) :
             Ranking(procs[p].hits) \in
                {Ranking(r.hits) :
                    r \in bm25_search(WriteBm25(procs[p].snap, a, 0),
                                      arg.query, arg.topk)}

\* C3: of the build and parse requests of the dataset at most one is under way.
C3_OneBuildAtATime ==
    Cardinality({p \in DOMAIN procs : /\ procs[p].op \in {"build", "parse"}
                                      /\ procs[p].pc # "done"}) <= 1

\* --------------------------------------------------- build_edges: graph.py
\* _load_rows: the lines json.loads rejects are dropped
load_rows(rows) == SelectSeq(rows.data, LAMBDA l : l.valid)

\* by_conv's keys in the order of their first row
RECURSIVE ConvOrder(_, _)
ConvOrder(rows, seen) ==
    IF rows = <<>> THEN <<>>
    ELSE IF Head(rows).conv_id \in seen THEN ConvOrder(Tail(rows), seen)
    ELSE <<Head(rows).conv_id>> \o ConvOrder(Tail(rows), seen \cup {Head(rows).conv_id})

\* x.get("ts") or ""
TsKey(row) == IF "ts" \in row.has THEN row.ts ELSE 0

\* by_conv[c] without the sort: the rows of the conversation in file order
ConvFileOrder(rows, c) == SelectSeq(rows, LAMBDA r : r.conv_id = c)

\* by_conv[c] after lst.sort(key=ts): list.sort is stable, rows of equal ts keep
\* their file order
ConvSorted(rows, c) ==
    LET lst == SelectSeq(rows, LAMBDA r : r.conv_id = c)
        p == CHOOSE q \in Perms(1..Len(lst)) :
                \A i, j \in 1..Len(lst) :
                    i < j => \/ TsKey(lst[q[i]]) < TsKey(lst[q[j]])
                             \/ /\ TsKey(lst[q[i]]) = TsKey(lst[q[j]])
                                /\ q[i] < q[j]
    IN  [i \in 1..Len(lst) |-> lst[p[i]]]

ReplyWeight == 2 * Scale

\* the reply edges of one conversation: one per consecutive pair
ReplyEdges(lst) ==
    [i \in 1..(Len(lst) - 1) |->
        [src |-> lst[i].msg, dst |-> lst[i + 1].msg, w |-> ReplyWeight,
         type |-> "reply"]]

\* the defaults of build_edges: same_topic_k = 3, same_topic_min_cos = 0.60
SameTopicK == 3
MinCosNum == 3
MinCosDen == 5

\* a floor that lets every pair through
CosNoFloor(u, v, num, den) == TRUE

\* _cos(a, b) >= num / den; _cos is 0.0 when a norm is 0
CosAtLeast(u, v, num, den) ==
    IF Norm2(u) = 0 \/ Norm2(v) = 0 THEN num <= 0
    ELSE Dot(u, v) * Dot(u, v) * den * den >= num * num * Norm2(u) * Norm2(v)

\* id_to_idx: msg id -> its row in vecs.npz (the last one, were an id stored twice)
IdToIdx(ids) ==
    [m \in {ids[j] : j \in 1..Len(ids)} |->
        CHOOSE j \in 1..Len(ids) :
            ids[j] = m /\ \A k \in 1..Len(ids) : ids[k] = m => k <= j]

\* the same_topic edges out of row j of vecs.npz: the rows of idxs other than j
\* at or above the floor, by descending cosine (stable), cut to k
SameTopicFrom(j, idxs, ids, vecs, k) ==
    LET sims == SelectSeq(idxs, LAMBDA q : q # j /\ CosAtLeast(vecs[j], vecs[q],
                                                              MinCosNum, MinCosDen))
        p == CHOOSE q \in Perms(1..Len(sims)) :
                \A a, b \in 1..Len(sims) :
                    a < b => \/ SimGreater(vecs[sims[q[a]]], vecs[sims[q[b]]], vecs[j])
                             \/ /\ ~SimGreater(vecs[sims[q[b]]], vecs[sims[q[a]]], vecs[j])
                                /\ q[a] < q[b]
    IN  [a \in 1..Min(Len(sims), k) |->
            [src |-> ids[j], dst |-> ids[sims[p[a]]],
             w |-> Scale + CosFp(vecs[j], vecs[sims[p[a]]]), type |-> "same_topic"]]

\* the same_topic edges of one conversation
SameTopicEdges(lst, ids, vecs, k) ==
    LET have == SelectSeq(lst, LAMBDA r : r.msg \in DOMAIN IdToIdx(ids))
        idxs == [i \in 1..Len(have) |-> IdToIdx(ids)[have[i].msg]]
    IN  IF k <= 0 THEN <<>>
        ELSE Concat([i \in 1..Len(idxs) |-> SameTopicFrom(idxs[i], idxs, ids, vecs, k)])

\* build_edges(ddir, same_topic_k): the lines of edges.jsonl or the exception
build_edges(dir, k) ==
    IF ~dir.rows.exists THEN [err |-> "FileNotFoundError", edges |-> <<>>]
    ELSE LET rows == load_rows(dir.rows)
         IN  IF \E i \in 1..Len(rows) : {"msg", "conv_id"} \ rows[i].has # {}
             THEN [err |-> "KeyError", edges |-> <<>>]
             ELSE LET convs == ConvOrder(rows, {})
                      reply == Concat([c \in 1..Len(convs) |->
                                         ReplyEdges(ConvSorted(rows, convs[c]))])
                      topic == IF ~dir.vecs.exists THEN <<>>
                               ELSE Concat([c \in 1..Len(convs) |->
                                              SameTopicEdges(ConvSorted(rows, convs[c]),
                                                             dir.vecs.data.ids,
                                                             dir.vecs.data.vecs, k)])
                  IN  [err |-> "none", edges |-> reply \o topic]

\* ------------------------------------------ graph specification: SpecGraph
\* rows.jsonl as parse_export numbers it, the rows differing in conversation,
\* time and text; build_vecs and build_edges run one after the other in any
\* order, each as a whole.
MaxGraphRows == 3

\* "x", "x x", "x a": cosines 2/sqrt(5), 1/sqrt(3) and 2/sqrt(15) between them
GraphTexts == { <<"x">>, <<"x", " ", "x">>, <<"x", " ", "a">> }

\* conversation and time of a row
GraphSlots == { <<"c1", 1>>, <<"c1", 2>>, <<"c2", 1>> }

GraphLines(i) ==
    {Row(i - 1, s[1], s[2], "user", x) : s \in GraphSlots, x \in GraphTexts}

GraphCorpora ==
    UNION {{rows \in [1..n -> UNION {GraphLines(i) : i \in 1..n}] :
              \A i \in 1..n : rows[i] \in GraphLines(i)} : n \in 0..MaxGraphRows}

InitGraph ==
    /\ \E rows \in GraphCorpora :
          fs = [EmptyDir EXCEPT !.rows = FileOf(rows, 0),
                                !.meta = FileOf(MetaFromRows(rows), 0)]
    /\ arg \in [k : {1, SameTopicK}, bseed : HashSeeds]
    /\ out = NoCall
    /\ procs = <<>>

\* build_edges(ddir, same_topic_k), the whole call
DoBuildEdges ==
    LET res == build_edges(fs, arg.k)
    IN  /\ fs' = IF res.err = "none" THEN [fs EXCEPT !.edges = FileOf(res.edges, 0)]
                 ELSE fs
        /\ out' = [op |-> "build_edges", err |-> res.err]
        /\ UNCHANGED <<arg, procs>>

NextGraph ==
    \/ DoBuildVecs
    \/ DoBuildEdges

SpecGraph == InitGraph /\ [][NextGraph]_vars

\* ----------------------------------------------------- claims on SpecGraph
\* the ids of conversation c by ascending time, rows of equal time by ascending id
ByTimeThenId(rows, c) ==
    LET S == {i \in 1..Len(rows) : rows[i].conv_id = c}
    IN  CHOOSE q \in [1..Cardinality(S) -> {rows[i].msg : i \in S}] :
           /\ \A i \in S : \E a \in DOMAIN q : q[a] = rows[i].msg
           /\ \A a, b \in DOMAIN q :
                 a < b => \/ rows[q[a] + 1].ts < rows[q[b] + 1].ts
                          \/ /\ rows[q[a] + 1].ts = rows[q[b] + 1].ts
                             /\ q[a] < q[b]

\* the lines of edges.jsonl of one type that leave a message of conversation c
EdgesOf(rows, c, type) ==
    SelectSeq(fs.edges.data,
              LAMBDA e : e.type = type /\ rows[e.src + 1].conv_id = c)

\* edges.jsonl is the result of build_edges on the rows of the directory
EdgesBuilt == fs.edges.exists /\ fs.rows.exists

\* C12: a conversation of n messages has exactly n-1 reply edges, of weight 2.0,
\* the k-th from the k-th to the (k+1)-th message of the conversation by
\* ascending time, equal times by ascending id.
C12_ReplyEdgesChainByTime ==
    EdgesBuilt =>
        \A c \in {fs.rows.data[i].conv_id : i \in 1..Len(fs.rows.data)} :
            LET ids == ByTimeThenId(fs.rows.data, c)
                es == EdgesOf(fs.rows.data, c, "reply")
            IN  /\ Len(es) = Len(ids) - 1
                /\ \A a \in 1..Len(es) :
                      /\ es[a].src = ids[a]
                      /\ es[a].dst = ids[a + 1]
                      /\ es[a].w = 2 * Scale

\* a conversation of three messages, the first in the file the latest, the other
\* two of equal time, and its two reply edges written
C12_Witness ==
    /\ EdgesBuilt
    /\ Len(fs.rows.data) = 3
    /\ \A i \in 1..3 : fs.rows.data[i].conv_id = "c1"
    /\ fs.rows.data[1].ts = 2 /\ fs.rows.data[2].ts = 1 /\ fs.rows.data[3].ts = 1
    /\ Len(EdgesOf(fs.rows.data, "c1", "reply")) = 2

\* the last call was a build_edges that ended well: the directory is as it saw it
EdgesJustBuilt == out.op = "build_edges" /\ out.err = "none"

\* the stored vector of message m
VecOf(m) == fs.vecs.data.vecs[IdToIdx(fs.vecs.data.ids)[m]]

\* the cosine of two stored vectors is at least 0.60: neither is the zero vector
\* and (u.v)^2 >= 0.36 |u|^2 |v|^2
AtFloor(u, v) ==
    /\ Norm2(u) > 0
    /\ Norm2(v) > 0
    /\ 25 * Dot(u, v) * Dot(u, v) >= 9 * Norm2(u) * Norm2(v)

\* the messages a same_topic edge out of m may reach: the other messages of its
\* conversation that have a vector at or above the floor
Eligible(rows, m) ==
    {rows[i].msg : i \in {j \in 1..Len(rows) :
        /\ rows[j].msg # m
        /\ rows[j].conv_id = rows[m + 1].conv_id
        /\ rows[j].msg \in DOMAIN IdToIdx(fs.vecs.data.ids)
        /\ AtFloor(VecOf(m), VecOf(rows[j].msg))}}

\* the same_topic lines of edges.jsonl out of m
TopicOut(m) == SelectSeq(fs.edges.data, LAMBDA e : e.type = "same_topic" /\ e.src = m)

\* C13: a same_topic edge joins two distinct messages of one conversation whose
\* cosine is at least the floor, with weight 1 + cosine; a message has
\* min(k, eligible) of them, to distinct messages none of which is less similar
\* than an eligible message left out; without vecs.npz every edge is a reply edge.
C13_SameTopicEdges ==
    EdgesJustBuilt =>
        LET rows == fs.rows.data
        IN  IF ~fs.vecs.exists
            THEN \A a \in 1..Len(fs.edges.data) : fs.edges.data[a].type = "reply"
            ELSE \A i \in 1..Len(rows) :
                    LET m == rows[i].msg
                        es == TopicOut(m)
                        dsts == {es[a].dst : a \in 1..Len(es)}
                    IN  /\ Len(es) = Min(arg.k, Cardinality(Eligible(rows, m)))
                        /\ Cardinality(dsts) = Len(es)
                        /\ dsts \subseteq Eligible(rows, m)
                        /\ \A a \in 1..Len(es) :
                              es[a].w = Scale + CosFp(VecOf(m), VecOf(es[a].dst))
                        /\ \A d \in dsts, x \in Eligible(rows, m) \ dsts :
                              ~SimGreater(VecOf(x), VecOf(d), VecOf(m))

\* a message with two eligible messages and k = 1: one same_topic edge is
\* written, the other candidate is cut
C13_Witness ==
    /\ EdgesJustBuilt
    /\ fs.vecs.exists
    /\ arg.k = 1
    /\ \E i \in 1..Len(fs.rows.data) :
          /\ Cardinality(Eligible(fs.rows.data, fs.rows.data[i].msg)) = 2
          /\ Len(TopicOut(fs.rows.data[i].msg)) = 1

\* ------------------------------------------------ build_pagerank: graph.py
\* Ranks are fixed-point integers of PrScale units to 1.0; products go through
\* MulDiv, which never forms a number above 2 * c.
PrScale == 10 * 1000 * 1000 * 10

\* a * b = q * c + r with 0 <= r < c, for a, b >= 0 and c > 0
RECURSIVE MulDivQR(_, _, _)
MulDivQR(a, b, c) ==
    IF b = 0 THEN [q |-> 0, r |-> 0]
    ELSE LET h == MulDivQR(a, b \div 2, c)
             q2 == 2 * h.q + ((2 * h.r) \div c)
             r2 == (2 * h.r) % c
         IN  IF b % 2 = 0 THEN [q |-> q2, r |-> r2]
             ELSE [q |-> q2 + (a \div c) + ((r2 + (a % c)) \div c),
                   r |-> (r2 + (a % c)) % c]

\* a * b / c, rounded down
MulDiv(a, b, c) == MulDivQR(a, b, c).q

\* the edges build_pagerank loads: (src, dst, w) of every line
load_graph_edges(edges) == [i \in 1..Len(edges.data) |-> edges.data[i]]

\* G after G.add_edge(s, d, weight=w) for every edge: the nodes, and the weight
\* of s -> d (an edge added again takes the later weight)
GraphNodes(edges) ==
    {edges[i].src : i \in 1..Len(edges)} \cup {edges[i].dst : i \in 1..Len(edges)}

EdgeWeight(edges, s, d) ==
    LET at == {i \in 1..Len(edges) : edges[i].src = s /\ edges[i].dst = d}
    IN  IF at = {} THEN 0
        ELSE edges[CHOOSE i \in at : \A j \in at : j <= i].w

OutWeight(edges, s) ==
    SumOver(GraphNodes(edges), [d \in GraphNodes(edges) |-> EdgeWeight(edges, s, d)])

\* the personalization weight of a metadata entry in millionths:
\* 1e-6 + recency_boost(ts) + 0.05 [role = assistant] + 0.05 [has_code].
\* Time is counted in half-lives: recency_boost = 2 ^ -(now - ts), 1 for a
\* timestamp not in the past.
Micro == 1000 * 1000

RECURSIVE Pow2(_)
Pow2(n) == IF n <= 0 THEN 1 ELSE 2 * Pow2(n - 1)

recency_boost(ts, now) == Micro \div Pow2(Min(Max(0, now - ts), 30))

Personalization(entry, now) ==
    1 + recency_boost(entry.ts, now)
      + (IF entry.role = "assistant" THEN Micro \div 20 ELSE 0)
      + (IF entry.has_code THEN Micro \div 20 ELSE 0)

\* nx.pagerank(G, alpha, personalization, weight): max_iter = 100, tol = 1e-6
PrMaxIter == 100
PrTolDen == 1000 * 1000

Abs(x) == IF x < 0 THEN 0 - x ELSE x

\* one sweep: x <- alpha * (x A + sum(x[dangling]) * p) + (1 - alpha) * p, A the
\* row-normalized weights, p[j] = pn[j] / pd, alpha = an / ad
PrSweep(edges, x, pn, pd, an, ad) ==
    LET V == GraphNodes(edges)
        dsum == SumOver({i \in V : OutWeight(edges, i) = 0}, x)
    IN  [j \in V |->
            MulDiv(SumOver({i \in V : EdgeWeight(edges, i, j) > 0},
                           [i \in V |-> IF EdgeWeight(edges, i, j) > 0
                                        THEN MulDiv(x[i], EdgeWeight(edges, i, j),
                                                    OutWeight(edges, i))
                                        ELSE 0])
                   + MulDiv(dsum, pn[j], pd), an, ad)
            + MulDiv(MulDiv(PrScale, pn[j], pd), ad - an, ad)]

\* the test that ends the power iteration: sum |x - xlast| < N * tol
PrConverged(x, y) ==
    LET V == DOMAIN x
    IN  SumOver(V, [i \in V |-> Abs(y[i] - x[i])])
           < Cardinality(V) * (PrScale \div PrTolDen)

\* build_pagerank(ddir, alpha) up to the first sweep of nx.pagerank, at the
\* time now; alpha is given in hundredths.  The personalization keeps the
\* metadata entries of graph nodes only; nx.pagerank gives {} for the graph
\* without nodes, and normalizes the personalization over the nodes, where it
\* must not sum to 0.  err = "running": the power iteration starts from the
\* uniform vector.
pagerank_begin(dir, alphaPct, now) ==
    IF ~dir.edges.exists \/ ~dir.meta.exists
    THEN [op |-> "build_pagerank", err |-> "FileNotFoundError"]
    ELSE LET edges == load_graph_edges(dir.edges)
             meta == dir.meta.data
             V == GraphNodes(edges)
             pn == [j \in V |-> IF j \in DOMAIN meta
                                THEN Personalization(meta[j], now) ELSE 0]
             pd == SumOver(V, pn)
         IN  IF V = {} THEN [op |-> "build_pagerank", err |-> "none", pr |-> <<>>]
             ELSE IF pd = 0 THEN [op |-> "build_pagerank", err |-> "ZeroDivisionError"]
             ELSE [op |-> "build_pagerank", err |-> "running", edges |-> edges,
                   pn |-> pn, pd |-> pd,
                   an |-> 100 - Max(0, Min(alphaPct, 100)),
                   x |-> [j \in V |-> PrScale \div Cardinality(V)], it |-> 0]

\* one more sweep of a running build_pagerank: the ranks are returned when the
\* sweep converged, PowerIterationFailedConvergence is raised after the
\* max_iter-th sweep that did not
pagerank_sweep(run) ==
    LET y == PrSweep(run.edges, run.x, run.pn, run.pd, run.an, 100)
    IN  IF PrConverged(run.x, y)
        THEN [op |-> "build_pagerank", err |-> "none", pr |-> y]
        ELSE IF run.it + 1 >= PrMaxIter
        THEN [op |-> "build_pagerank", err |-> "PowerIterationFailedConvergence"]
        ELSE [run EXCEPT !.x = y, !.it = @ + 1]

\* ------------------------------------------- rank specification: SpecRank
\* edges.jsonl was built from an export of at most MaxRankRows messages; the
\* dataset was then parsed again from the first n of them, so that rows.jsonl and
\* meta.json may name fewer messages than the graph.  build_edges runs as a
\* whole; build_pagerank runs sweep by sweep, and nothing else runs meanwhile.
MaxRankRows == 2

RankLines(i) ==
    {Row(i - 1, s[1], s[2], r, <<"x">>) : s \in GraphSlots, r \in {"user", "assistant"}}

RankCorpora ==
    UNION {{rows \in [1..n -> UNION {RankLines(i) : i \in 1..n}] :
              \A i \in 1..n : rows[i] \in RankLines(i)} : n \in 0..MaxRankRows}

\* the teleport probabilities of the API in hundredths: the default and a lower one
RankAlphas == {15, 5}

\* the time of the call, in half-lives like the timestamps of the rows
RankNows == {2, 30}

InitRank ==
    /\ \E full \in RankCorpora, n \in 0..MaxRankRows, built \in BOOLEAN :
          /\ n <= Len(full)
          /\ LET rows == SubSeq(full, 1, n)
                 old == [EmptyDir EXCEPT !.rows = FileOf(full, 0)]
             IN  fs = [EmptyDir EXCEPT
                         !.rows = FileOf(rows, 0),
                         !.meta = FileOf(MetaFromRows(rows), 0),
                         !.edges = IF built
                                   THEN FileOf(build_edges(old, SameTopicK).edges, 0)
                                   ELSE Absent]
    /\ arg \in [k : {SameTopicK}, alpha : RankAlphas, now : RankNows]
    /\ out = NoCall
    /\ procs = <<>>

PagerankRunning == out.op = "build_pagerank" /\ out.err = "running"

\* build_edges(ddir), the whole call
RankBuildEdges ==
    /\ ~PagerankRunning
    /\ DoBuildEdges

\* build_pagerank(ddir, alpha) from its call to the first sweep; the graph
\* without nodes is ranked, and pr_global.json written, at once
StartPagerank ==
    /\ ~PagerankRunning
    /\ LET b == pagerank_begin(fs, arg.alpha, arg.now)
       IN  /\ out' = b
           /\ fs' = IF b.err = "none" THEN [fs EXCEPT !.pr_global = FileOf(b.pr, 0)]
                    ELSE fs
    /\ UNCHANGED <<arg, procs>>

\* the next sweep of the running build_pagerank; pr_global.json is written when
\* nx.pagerank has returned
PagerankSweep ==
    /\ PagerankRunning
    /\ LET r == pagerank_sweep(out)
       IN  /\ out' = r
           /\ fs' = IF r.err = "none" THEN [fs EXCEPT !.pr_global = FileOf(r.pr, 0)]
                    ELSE fs
    /\ UNCHANGED <<arg, procs>>

NextRank ==
    \/ RankBuildEdges
    \/ StartPagerank
    \/ PagerankSweep

SpecRank == InitRank /\ [][NextRank]_vars

\* ------------------------------------------------------ claims on SpecRank
\* the last call was a build_pagerank that returned
PagerankDone == out.op = "build_pagerank" /\ out.err = "none"

\* the sum of the persisted scores
PrTotal == SumOver(DOMAIN fs.pr_global.data, fs.pr_global.data)

\* C14: whenever build_pagerank succeeds, pr_global.json has exactly the nodes of
\* the graph as keys, every value is >= 0, and the values sum to 1 (within the
\* tolerance of the iteration, N * tol).
C14_PagerankIsDistribution ==
    PagerankDone =>
        LET V == GraphNodes(load_graph_edges(fs.edges))
            pr == fs.pr_global.data
        IN  /\ DOMAIN pr = V
            /\ \A j \in V : pr[j] >= 0
            /\ Abs(PrTotal - PrScale) <= Max(1, Cardinality(V)) * (PrScale \div PrTolDen)

\* the same for the graphs that have a node
PagerankOfNodesIsDistribution ==
    (PagerankDone /\ GraphNodes(load_graph_edges(fs.edges)) # {})
        => C14_PagerankIsDistribution

\* C15: build_pagerank never ends in a failure to converge (_mini_ppr, a loop of
\* iters rounds without a test, cannot)
C15_PagerankNeverFailsToConverge ==
    out.op = "build_pagerank" => out.err # "PowerIterationFailedConvergence"

\* with the default alpha the iteration ends within its budget
DefaultAlphaConverges ==
    arg.alpha = 15 => C15_PagerankNeverFailsToConverge

\* ---------------------------------------------------- _mini_ppr: rerank.py
\* Ranks are fixed-point integers of PprScale units to 1.0, normalized edge
\* weights of PprWScale units to 1.0; every quotient is rounded down.
PprScale == 1000 * 1000

PprWScale == 1000

\* alpha = 0.2 and iters = 20, the defaults hybrid_search runs with
PprAlphaNum == 1
PprAlphaDen == 5
PprIters == 20

\* the edges with both ends among the candidates, in the order of the list
CandEdges(cands, edges) ==
    SelectSeq(edges, LAMBDA e : e.src \in cands /\ e.dst \in cands)

\* col_w[j]: the weight that leaves candidate j along those edges
ColW(es, j) ==
    SumOver({a \in 1..Len(es) : es[a].src = j}, [a \in 1..Len(es) |-> es[a].w])

\* vals without the division by col_w
EdgeValRaw(es, a) == (es[a].w * PprWScale) \div Scale

\* vals[a] after vals /= np.take(col_w, cols), col_w == 0 replaced by 1.0
EdgeVal(es, a) ==
    IF ColW(es, es[a].src) = 0 THEN (es[a].w * PprWScale) \div Scale
    ELSE (es[a].w * PprWScale) \div ColW(es, es[a].src)

\* v: the seeds cut at 0, all 1 when none is positive, divided by their sum
PprSeed(cands, seed_weights) ==
    LET raw == [i \in cands |-> IF i \in DOMAIN seed_weights
                                THEN Max(0, seed_weights[i]) ELSE 0]
        v == IF SumOver(cands, raw) <= 0 THEN [i \in cands |-> 1] ELSE raw
        total == SumOver(cands, v)
    IN  [i \in cands |-> MulDiv(v[i], PprScale, total)]

\* Ar after Ar[A[0]] += A[2] * r[A[1]]: the assignment through an index array
\* keeps, for a row named more than once, the contribution of its last edge
PprInflow(es, r, i) ==
    LET into == {a \in 1..Len(es) : es[a].dst = i}
    IN  IF into = {} THEN 0
        ELSE LET a == CHOOSE x \in into : \A y \in into : y <= x
             IN  (EdgeVal(es, a) * r[es[a].src]) \div PprWScale

\* r = alpha * v + (1 - alpha) * Ar
PprRound(es, v, r) ==
    [i \in DOMAIN r |->
        (PprAlphaNum * v[i]) \div PprAlphaDen
        + ((PprAlphaDen - PprAlphaNum) * PprInflow(es, r, i)) \div PprAlphaDen]

\* the loop of iters rounds; a round that changes nothing ends it here, every
\* later round giving the same r
RECURSIVE PprLoop(_, _, _, _)
PprLoop(es, v, r, left) ==
    IF left = 0 THEN r
    ELSE LET y == PprRound(es, v, r)
         IN  IF y = r THEN r ELSE PprLoop(es, v, y, left - 1)

\* _mini_ppr(candidate_ids, edges, seed_weights, alpha=0.2, iters)
mini_ppr(cands, edges, seed_weights, iters) ==
    LET es == CandEdges(cands, edges)
        zeros == [i \in cands |-> 0]
    IN  IF cands = {} \/ edges = <<>> THEN zeros
        ELSE IF es = <<>> \/ SumOver(cands, [j \in cands |-> ColW(es, j)]) = 0 THEN zeros
        ELSE LET v == PprSeed(cands, seed_weights)
             IN  PprLoop(es, v, v, iters)

\* ------------------------------------- hybrid_search, the fusion: rerank.py
\* z-scores and prior are integers of ZScale units to 1.0, the weights of the
\* fusion are counted in hundredths, and the fused score has
\* 100 * ZScale * 2 ^ FreshBits units to 1.0.
ZScale == 1000

\* {msg: score} of a list of hits, as a function on the ids (a later hit of
\* the same id replaces the earlier one)
ScoreMap(hits) ==
    [i \in HitIds(hits) |->
        hits[CHOOSE k \in 1..Len(hits) :
                /\ hits[k].msg = i
                /\ \A j \in 1..Len(hits) : hits[j].msg = i => j <= k].score]

\* scores.get(i, 0.0)
GetOr0(scores, i) == IF i \in DOMAIN scores THEN scores[i] ELSE 0

\* _z_norm(scores, ids): (a - mean) / std, all 0 when std is 0 (a std below
\* 1e-9 and above 0 is out of reach of scores of 1e-8 and coarser units).  With
\* n ids, n * (a - mean) = n * a - sum; the deviations are taken relative to the
\* largest of them, in ZScale units, before the root is drawn.
z_norm(scores, ids) ==
    LET n == Cardinality(ids)
        a == [i \in ids |-> GetOr0(scores, i)]
        total == SumOver(ids, a)
        dev == [i \in ids |-> n * a[i] - total]
        top == CHOOSE m \in {Abs(dev[i]) : i \in ids} : \A i \in ids : Abs(dev[i]) <= m
        rel == [i \in ids |-> IF dev[i] >= 0 THEN MulDiv(dev[i], ZScale, top)
                              ELSE 0 - MulDiv(0 - dev[i], ZScale, top)]
        sq == SumOver(ids, [i \in ids |-> rel[i] * rel[i]])
    IN  IF n = 0 THEN [i \in ids |-> 0]
        ELSE IF top = 0 THEN [i \in ids |-> 0]
        ELSE [i \in ids |-> (rel[i] * ZScale) \div Isqrt(sq \div n)]

\* _freshness(ts, now) = 2 ^ -(age / HALF_LIFE_DAYS), time counted in half-lives,
\* in units of 2 ^ -FreshBits (exact for ages up to FreshBits)
FreshBits == 12

freshness(ts, now) == Pow2(FreshBits - Min(Max(0, now - ts), FreshBits))

\* fresh[i]: 0.0 for a candidate without a timestamp
FreshOf(meta, i, now) ==
    IF i \in DOMAIN meta THEN freshness(meta[i].ts, now) ELSE 0

\* prior[i]: 0.30 for an assistant message; the hits carry neither has_code
\* nor a snippet, so the other two terms are 0
PriorOf(meta, i) ==
    IF MetaOf(meta, i).role = "assistant" THEN (3 * ZScale) \div 10 ELSE 0

\* seeds[i] = b * (c if c > 0 else b), b and c the scores cut at 0
SeedOf(bm_map, cos_map, i) ==
    LET b == Max(0, GetOr0(bm_map, i))
        c == Max(0, GetOr0(cos_map, i))
    IN  b * (IF c > 0 THEN c ELSE b)

\* the six signals of every candidate and the fused score (rerank.py:121-170)
FusedSignals(dir, bm_map, cos_map, cand_ids, now) ==
    LET pr_global == load_pr_global(dir)
        edges == load_edges(dir)
        seeds == [i \in cand_ids |-> SeedOf(bm_map, cos_map, i)]
        ppr_raw == IF edges # <<>> THEN mini_ppr(cand_ids, edges, seeds, PprIters)
                   ELSE [i \in cand_ids |-> 0]
        meta == IF dir.meta.exists THEN dir.meta.data ELSE <<>>
        bm_z == z_norm(bm_map, cand_ids)
        cos_z == IF DOMAIN cos_map # {} THEN z_norm(cos_map, cand_ids)
                 ELSE [i \in cand_ids |-> 0]
        prg_z == IF DOMAIN pr_global # {} THEN z_norm(pr_global, cand_ids)
                 ELSE [i \in cand_ids |-> 0]
        ppr_z == z_norm(ppr_raw, cand_ids)
    IN  [cos_z |-> cos_z, ppr_z |-> ppr_z,
         fused |-> [i \in cand_ids |->
                      Pow2(FreshBits)
                         * (100 * bm_z[i] + 55 * cos_z[i] + 20 * PriorOf(meta, i)
                            + 20 * prg_z[i] + 25 * ppr_z[i])
                      + 10 * ZScale * FreshOf(meta, i, now)]]

\* hybrid_search once bm25_search has returned bm, at the time now, in a run of
\* hash seed `seed`: one result per order in which the candidate set iterates
HybridRankedFrom(dir, bm, query, topk, seed, now) ==
    IF bm.err # "none" THEN {[err |-> bm.err, ranked |-> <<>>, cos_z |-> <<>>,
                              ppr_z |-> <<>>]}
    ELSE LET d == dense_search(dir, query, RecallDepth, seed)
             dense == IF d.err = "none" THEN d.hits ELSE <<>>
             bm_map == ScoreMap(bm.hits)
             cos_map == ScoreMap(dense)
             cand_ids == DOMAIN bm_map \cup DOMAIN cos_map
             sig == FusedSignals(dir, bm_map, cos_map, cand_ids, now)
         IN  IF cand_ids = {} THEN {[err |-> "none", ranked |-> <<>>, cos_z |-> <<>>,
                                     ppr_z |-> <<>>]}
             ELSE {[err |-> "none",
                    ranked |-> Take(StableSortDesc(order, sig.fused), topk),
                    cos_z |-> sig.cos_z, ppr_z |-> sig.ppr_z] :
                      order \in SetIterOrders(cand_ids)}

\* hybrid_search(ddir, q, topk): the ranked ids and two of the z-components
hybrid_ranked(dir, query, topk, seed, now) ==
    UNION {HybridRankedFrom(dir, bm, query, topk, seed, now) :
             bm \in bm25_search(dir, query, RecallDepth)}

\* ------------------------------------------ fusion specification: SpecFuse
\* rows.jsonl and meta.json of one conversation of at most MaxFuseRows
\* messages; build_bm25, build_vecs, build_edges and hybrid_search run one after
\* the other, each as a whole; pr_global.json is never built.
MaxFuseRows == 2

FuseTexts == { <<"x">>, <<"x", " ", "a">> }

\* the times of the messages and of the calls, in half-lives
FuseTimes == {1, 3}

FuseNows == {3, 13}

FuseLines(i) ==
    {Row(i - 1, "c1", t, r, x) :
        t \in FuseTimes, r \in {"user", "assistant"}, x \in FuseTexts}

FuseCorpora ==
    UNION {{rows \in [1..n -> UNION {FuseLines(i) : i \in 1..n}] :
              \A i \in 1..n : rows[i] \in FuseLines(i)} : n \in 0..MaxFuseRows}

InitFuse ==
    /\ \E rows \in FuseCorpora :
          fs = [EmptyDir EXCEPT !.rows = FileOf(rows, 0),
                                !.meta = FileOf(MetaFromRows(rows), 0)]
    /\ arg \in [query : { <<"x">>, <<"a">> }, topk : {1, 10}, k : {SameTopicK},
                bseed : {0}]
    /\ out = NoCall
    /\ procs = <<>>

\* hybrid_search(ddir, q, topk), the whole call, at some time in some run
DoHybridRank ==
    \E now \in FuseNows, qseed \in HashSeeds :
       \E r \in hybrid_ranked(fs, arg.query, arg.topk, qseed, now) :
          /\ out' = [op |-> "hybrid_search", err |-> r.err, ranked |-> r.ranked,
                     cos_z |-> r.cos_z, ppr_z |-> r.ppr_z]
          /\ UNCHANGED <<fs, arg, procs>>

NextFuse ==
    \/ DoBuildBm25
    \/ DoBuildVecs
    \/ DoBuildEdges
    \/ DoHybridRank

SpecFuse == InitFuse /\ [][NextFuse]_vars

\* ------------------------------------------------------ claims on SpecFuse
\* the last call was a hybrid_search that returned
HybridReturned == out.op = "hybrid_search" /\ out.err = "none"

\* C16: two calls of hybrid_search with the same query on the same artifacts
\* return the same ranked ids, whatever the time of the call, the run (its hash
\* seed) and the order in which the candidate set iterates.
C16_HybridDeterministic ==
    HybridReturned =>
        \A now \in FuseNows, qseed \in HashSeeds :
            \A r \in hybrid_ranked(fs, arg.query, arg.topk, qseed, now) :
                r.ranked = out.ranked

\* C17: without vecs.npz every candidate of hybrid_search has the cosine
\* z-component 0 and the mini-PPR z-component 0, with or without edges.jsonl.
C17_LexicalOnlyZerosSemanticAndPpr ==
    (HybridReturned /\ ~fs.vecs.exists) =>
        /\ \A i \in DOMAIN out.cos_z : out.cos_z[i] = 0
        /\ \A i \in DOMAIN out.ppr_z : out.ppr_z[i] = 0

\* the cosine half of it
NoVecsZeroCosine ==
    (HybridReturned /\ ~fs.vecs.exists) => \A i \in DOMAIN out.cos_z : out.cos_z[i] = 0

\* --------------------------------------- tokenizer specification: SpecTok
\* One text of at most MaxTextLen characters, and the three places that turn a
\* text into terms: build_bm25 for the text of a row, bm25_search and
\* search_bm25_with_snippets for the query.
InitTok ==
    /\ fs = EmptyDir
    /\ arg \in [query : TextsUpTo(MaxTextLen)]
    /\ out = NoCall
    /\ procs = <<>>

\* toks = tokenize(text) of build_bm25 (index_bm25.py:67)
TokenizeRow ==
    /\ out' = [op |-> "build_bm25", terms |-> tokenize(arg.query)]
    /\ UNCHANGED <<fs, arg, procs>>

\* q_terms = tokenize(query) of bm25_search (index_bm25.py:138)
TokenizeBm25Query ==
    /\ out' = [op |-> "bm25_search", terms |-> tokenize(arg.query)]
    /\ UNCHANGED <<fs, arg, procs>>

\* q_terms = tokenize(q) of search_bm25_with_snippets (search.py:119)
TokenizeSnippetsQuery ==
    /\ out' = [op |-> "snippets", terms |-> search_tokenize(arg.query)]
    /\ UNCHANGED <<fs, arg, procs>>

NextTok ==
    \/ TokenizeRow
    \/ TokenizeBm25Query
    \/ TokenizeSnippetsQuery

SpecTok == InitTok /\ [][NextTok]_vars

\* ------------------------------------------------------- claims on SpecTok
\* C19: the query terms of bm25_search and of search_bm25_with_snippets are, for
\* every text, the terms index_bm25.tokenize gives the build for that text.
C19_QueryTokenizedAsBuild ==
    out.op \in {"bm25_search", "snippets"} => out.terms = tokenize(arg.query)

\* the same for bm25_search alone
Bm25QueryTokenizedAsBuild ==
    out.op = "bm25_search" => out.terms = tokenize(arg.query)

\* ------------------------------------------ mini-PPR specification: SpecPpr
\* _mini_ppr on a candidate list, an edge list of at most MaxPprEdges edges
\* between the messages 0, 1, 2 (of weight 2.0, or 1.6 from message 0; an edge
\* from a message to itself included), a seed vector and a number of rounds.
MaxPprEdges == 2

PprNodes == 0..2

PprEdgeSet ==
    {[src |-> a, dst |-> b, w |-> 2 * Scale, type |-> "reply"] :
        a \in PprNodes, b \in PprNodes}
    \cup {[src |-> 0, dst |-> b, w |-> (8 * Scale) \div 5, type |-> "same_topic"] :
            b \in PprNodes}

PprEdgeLists == UNION {[1..n -> PprEdgeSet] : n \in 0..MaxPprEdges}

PprCands == { {}, {0, 1}, {0, 1, 2} }

\* seeds: none, all 0, one message, unequal, and one below 0
PprSeeds ==
    { <<>>, (0 :> 0) @@ (1 :> 0) @@ (2 :> 0), (0 :> 1),
      (0 :> 3) @@ (1 :> 1) @@ (2 :> 1), (0 :> 0 - 1) @@ (1 :> 2) }

InitPpr ==
    /\ fs = EmptyDir
    /\ arg \in [cands : PprCands, edges : PprEdgeLists, seeds : PprSeeds,
                iters : {1, 2, PprIters}]
    /\ out = NoCall
    /\ procs = <<>>

\* _mini_ppr(candidate_ids, edges, seed_weights, iters=iters), the whole call
DoMiniPpr ==
    /\ out' = [op |-> "_mini_ppr",
               r |-> mini_ppr(arg.cands, arg.edges, arg.seeds, arg.iters)]
    /\ UNCHANGED <<fs, arg, procs>>

NextPpr == DoMiniPpr

SpecPpr == InitPpr /\ [][NextPpr]_vars

\* ------------------------------------------------------- claims on SpecPpr
\* the total rank mass of r
PprMass(r) == SumOver(DOMAIN r, r)

\* what rounding down may take from a sum that is 1.0
PprTol == 100

\* the candidates no used edge leaves
PprDangling(cands, edges) ==
    {j \in cands : \A a \in 1..Len(edges) :
                      ~(edges[a].src = j /\ edges[a].dst \in cands)}

\* the power iteration ran: there are candidates and an edge between two of them
PprRan == arg.cands # {} /\ CandEdges(arg.cands, arg.edges) # <<>>

\* C20: _mini_ppr uses only the edges between candidates; the weights that leave
\* a source are normalized to sum 1; the seed vector is normalized to sum 1,
\* uniform when no seed is positive; after every round every rank is >= 0 and the
\* total mass is <= 1, and it is 1 only if, before the round, no mass sat on a
\* candidate without out-edges.
C20_MiniPprMassBounded ==
    out.op = "_mini_ppr" =>
        LET es == CandEdges(arg.cands, arg.edges)
            v == PprSeed(arg.cands, arg.seeds)
            before == mini_ppr(arg.cands, arg.edges, arg.seeds, arg.iters - 1)
        IN  /\ out.r = mini_ppr(arg.cands, es, arg.seeds, arg.iters)
            /\ \A j \in arg.cands :
                  ColW(es, j) > 0 =>
                     LET leaving == {a \in 1..Len(es) : es[a].src = j}
                         total == SumOver(leaving, [a \in 1..Len(es) |-> EdgeVal(es, a)])
                     IN  total <= PprWScale /\ total >= PprWScale - Len(es)
            /\ arg.cands # {} =>
                  /\ PprMass(v) <= PprScale
                  /\ PprMass(v) >= PprScale - Cardinality(arg.cands)
                  /\ (\A i \in arg.cands : GetOr0(arg.seeds, i) <= 0)
                        => \A i, j \in arg.cands : v[i] = v[j]
            /\ \A i \in DOMAIN out.r : out.r[i] >= 0
            /\ PprMass(out.r) <= PprScale
            /\ (PprRan /\ PprMass(out.r) >= PprScale - PprTol)
                  => \A j \in PprDangling(arg.cands, arg.edges) : before[j] = 0

\* twenty rounds on the candidates 0 and 1 with the edges 0 -> 1 and 1 -> 2: the
\* second edge leaves the candidates, message 1 keeps what it gets and the mass
\* falls below 1
C20_Witness ==
    /\ out.op = "_mini_ppr"
    /\ arg.iters = PprIters
    /\ arg.cands = {0, 1}
    /\ Len(arg.edges) = 2
    /\ arg.edges[1].src = 0 /\ arg.edges[1].dst = 1
    /\ arg.edges[2].src = 1 /\ arg.edges[2].dst = 2
    /\ out.r[1] > 0
    /\ PprMass(out.r) < PprScale - PprTol

\* two candidates that send to each other keep all the mass
PprCycleKeepsMass ==
    (/\ out.op = "_mini_ppr"
     /\ arg.cands = {0, 1}
     /\ Len(arg.edges) = 2
     /\ arg.edges[1].src = 0 /\ arg.edges[1].dst = 1
     /\ arg.edges[2].src = 1 /\ arg.edges[2].dst = 0)
       => PprMass(out.r) >= PprScale - PprTol


\* ------------------------------------ parse_export as a whole: SpecParse
\* An export is a list of at most MaxConvs conversations of at most MaxMsgs
\* message nodes each. parse_export(raw_path, out_dir) runs as a whole, once into
\* an empty dataset directory and then again over what the earlier run left.

MaxConvs == 2

MaxMsgs == 2

MaxParses == 2

\* SYSTEM_ROLES (parse.py:11)
SYSTEM_ROLES == {"system"}

\* a message node: _role, _message_text and _timestamp (create_time) of it
ExportMsg(r, x, t) == [role |-> r, text |-> x, ts |-> t]

ExportMsgs ==
    {ExportMsg("user", <<"x">>, 1), ExportMsg("assistant", <<"x">>, 1),
     ExportMsg("user", <<"a">>, 2), ExportMsg("tool", <<"x">>, 2),
     ExportMsg("system", <<"x">>, 1), ExportMsg("user", <<" ">>, 1)}

\* conv.get("id"): "" stands for a conversation without id and conversation_id
ExportConvIds == {"", "c_2"}

ExportConvs ==
    [id : ExportConvIds, msgs : UNION {[1..n -> ExportMsgs] : n \in 0..MaxMsgs}]

ParseExports == UNION {[1..n -> ExportConvs] : n \in 0..MaxConvs}

\* the exports a second run is given
ReExports ==
    { <<>>,
      <<[id |-> "c_2", msgs |-> <<ExportMsg("system", <<"x">>, 1)>>]>>,
      <<[id |-> "c_2", msgs |-> <<ExportMsg("user", <<"x">>, 1)>>]>>,
      <<[id |-> "c_2", msgs |-> <<ExportMsg("user", <<"x">>, 1)>>],
        [id |-> "", msgs |-> <<ExportMsg("user", <<"a">>, 2),
                               ExportMsg("assistant", <<"x">>, 1)>>]>> }

\* not text.strip()
BlankText(text) == \A i \in DOMAIN text : text[i] \in Whitespace

\* nrole = role if role in ("user", "assistant") else "assistant"
NormRole(r) == IF r \in {"user", "assistant"} THEN r ELSE "assistant"

\* the sort key of a collected message: (ts_sec, 0 if role == "user" else 1)
RoleRank(r) == IF r = "user" THEN 0 ELSE 1

MsgKeyLess(a, b) ==
    \/ a.ts < b.ts
    \/ a.ts = b.ts /\ RoleRank(a.role) < RoleRank(b.role)

MsgKeyEq(a, b) == a.ts = b.ts /\ RoleRank(a.role) = RoleRank(b.role)

\* _collect_from_mapping: system and blank messages skipped, the role
\* normalised, the list sorted by the key (list.sort is stable)
collect_from_mapping(conv) ==
    LET kept == SelectSeq(conv.msgs,
                          LAMBDA m : m.role \notin SYSTEM_ROLES /\ ~BlankText(m.text))
        lst == [i \in 1..Len(kept) |-> [kept[i] EXCEPT !.role = NormRole(@)]]
        p == CHOOSE q \in Perms(1..Len(lst)) :
                \A i, j \in 1..Len(lst) :
                    i < j => \/ MsgKeyLess(lst[q[i]], lst[q[j]])
                             \/ /\ MsgKeyEq(lst[q[i]], lst[q[j]])
                                /\ q[i] < q[j]
    IN  [i \in 1..Len(lst) |-> lst[p[i]]]

\* str(conv.get("id") or conv.get("conversation_id") or f"c_{idx}")
ConvIdOf(conv, idx) == IF conv.id # "" THEN conv.id ELSE "c_" \o ToString(idx)

\* the tables of parse_export before the loop; `rows` is what the run has
\* appended to rows.jsonl
ParseAcc0 ==
    [rows |-> <<>>, meta |-> <<>>, threads |-> <<>>, msg_auto |-> 0, conv_count |-> 0]

\* the id emit() gives the k-th message of a conversation
EmitMsgId(msg_auto, k) == msg_auto + k - 1

\* threads.setdefault(conv_id, []).extend(ordered)
ThreadsExtend(threads, conv_id, ordered) ==
    DictSet(threads, conv_id,
            IF conv_id \in DOMAIN threads THEN threads[conv_id] \o ordered
            ELSE ordered)

RECURSIVE EmitMeta(_, _, _)
EmitMeta(meta, rows, k) ==
    IF k > Len(rows) THEN meta
    ELSE EmitMeta(DictSet(meta, rows[k].msg, MetaEntry(rows[k])), rows, k + 1)

\* emit(conv_id, title, msgs): one row, one meta entry and one thread id per
\* message, ids taken from msg_auto
emit(acc, conv_id, msgs) ==
    LET new == [k \in 1..Len(msgs) |->
                   Row(EmitMsgId(acc.msg_auto, k), conv_id, msgs[k].ts,
                       msgs[k].role, msgs[k].text)]
        ordered == [k \in 1..Len(msgs) |-> new[k].msg]
    IN  [acc EXCEPT !.rows = @ \o new,
                    !.meta = EmitMeta(@, new, 1),
                    !.threads = ThreadsExtend(@, conv_id, ordered),
                    !.msg_auto = @ + Len(msgs)]

\* the loop of parse_export over conversations idx.. of the export
RECURSIVE ParseLoop(_, _, _)
ParseLoop(acc, export, idx) ==
    IF idx > Len(export) THEN acc
    ELSE LET msgs == collect_from_mapping(export[idx])
             counted == [acc EXCEPT !.conv_count = @ + 1]
         IN  ParseLoop(IF msgs = <<>> THEN counted
                       ELSE emit(counted, ConvIdOf(export[idx], idx), msgs),
                       export, idx + 1)

\* rows.jsonl after the run: unlinked at the start, created by the first
\* append of emit()
RowsFileAfter(acc, n) == IF acc.rows = <<>> THEN Absent ELSE FileOf(acc.rows, n)

\* parse_export(raw_path, out_dir) run n: the directory it leaves and what it
\* returns
parse_export(dir, export, n) ==
    LET acc == ParseLoop(ParseAcc0, export, 1)
    IN  [dir |-> [dir EXCEPT !.raw = FileOf(export, n),
                             !.rows = RowsFileAfter(acc, n),
                             !.threads = FileOf(acc.threads, n),
                             !.meta = FileOf(acc.meta, n)],
         convs |-> acc.conv_count,
         msgs |-> Cardinality(DOMAIN acc.meta)]

InitParse ==
    /\ arg \in [raw : ParseExports, runs : {0}]
    /\ fs = [EmptyDir EXCEPT !.raw = FileOf(arg.raw, 0)]
    /\ out = NoCall
    /\ procs = <<>>

\* parse_export on the uploaded export, into a directory that holds no result
ParseExport ==
    /\ arg.runs = 0
    /\ LET res == parse_export(fs, arg.raw, 1)
       IN  /\ fs' = res.dir
           /\ out' = [op |-> "parse_export", err |-> "none",
                      convs |-> res.convs, msgs |-> res.msgs]
    /\ arg' = [arg EXCEPT !.runs = 1]
    /\ UNCHANGED procs

\* parse_export again, on the same export or on another one, over the result
\* of the earlier run
ParseAgain ==
    /\ arg.runs \in 1..(MaxParses - 1)
    /\ \E e \in ReExports \cup {arg.raw} :
          LET res == parse_export(fs, e, arg.runs + 1)
          IN  /\ fs' = res.dir
              /\ out' = [op |-> "parse_export", err |-> "none",
                         convs |-> res.convs, msgs |-> res.msgs]
              /\ arg' = [raw |-> e, runs |-> arg.runs + 1]
    /\ UNCHANGED procs

NextParse == ParseExport \/ ParseAgain

SpecParse == InitParse /\ [][NextParse]_vars

ParseReturned == out.op = "parse_export" /\ out.err = "none"

\* rows.jsonl has n lines and the line at position i has msg = i
RowsNumbered(n) ==
    /\ Len(fs.rows.data) = n
    /\ \A i \in 1..n : fs.rows.data[i].msg = i - 1

\* meta.json has exactly the keys 0..n-1
MetaKeyed(n) == fs.meta.exists /\ DOMAIN fs.meta.data = 0..(n - 1)

\* the places of threads.json where id is listed
ThreadPlaces(id) ==
    {pl \in UNION {{<<c, k>> : k \in DOMAIN fs.threads.data[c]} :
                      c \in DOMAIN fs.threads.data} :
        fs.threads.data[pl[1]][pl[2]] = id}

\* the id lists of threads.json partition 0..n-1, every id under the conv_id
\* of its row
ThreadsPartition(n) ==
    /\ fs.threads.exists
    /\ \A c \in DOMAIN fs.threads.data :
          \A k \in DOMAIN fs.threads.data[c] :
             /\ fs.threads.data[c][k] \in 0..(n - 1)
             /\ fs.rows.data[fs.threads.data[c][k] + 1].conv_id = c
    /\ \A id \in 0..(n - 1) : Cardinality(ThreadPlaces(id)) = 1

\* C21: after parse_export has returned, rows.jsonl is there and holds exactly
\* n rows with msg = 0..n-1 in file order, meta.json has exactly the keys
\* 0..n-1, and the id lists of threads.json partition 0..n-1 with every id
\* under the conv_id of its row; also when conversations share an id and when
\* the run is over an earlier result. Violated: an export with no message to
\* keep leaves no rows.jsonl at all (an earlier one is removed) next to a
\* meta.json and a threads.json that say "empty".
C21_ParseArtifactsAgree ==
    ParseReturned =>
        /\ fs.rows.exists
        /\ RowsNumbered(out.msgs)
        /\ MetaKeyed(out.msgs)
        /\ ThreadsPartition(out.msgs)

\* what does hold: the numbering, the keys and the partition agree after every
\* run, and rows.jsonl is there exactly when a message was kept
ParseTablesAgree ==
    ParseReturned =>
        /\ fs.rows.exists <=> out.msgs > 0
        /\ RowsNumbered(out.msgs)
        /\ MetaKeyed(out.msgs)
        /\ ThreadsPartition(out.msgs)

\* the case happens: a second run over an earlier result, two conversations
\* under one id, messages reordered by the sort
ParseSharedIdRerun ==
    /\ ParseReturned /\ arg.runs = 2 /\ out.msgs = 3
    /\ DOMAIN fs.threads.data = {"c_2"}
    /\ fs.rows.data[2].ts < arg.raw[2].msgs[1].ts

\* the violating case: a re-run on an export of one system message
ParseNoRowsFile ==
    ParseReturned /\ out.msgs = 0 /\ out.convs = 1 /\ ~fs.rows.exists

=============================================================================
